---- MODULE Spec2Model ----
(***************************************************************************)
(* Arbitrary-precision decimal engine (packages/decimal): a Decimal is an   *)
(* object with two bigint fields, coeff and digits, denoting                *)
(* coeff * 10^(-digits).  The model keeps a heap of Decimal objects so that *)
(* the in-place ($-suffixed) methods mutate the receiver object and the     *)
(* value-returning twins work on a clone.  One action per public method;    *)
(* each action runs the whole call and records how it returned.             *)
(***************************************************************************)
EXTENDS Integers, Sequences, FiniteSets, TLC

VARIABLES heap, pc, call, pre, ret, err

vars == <<heap, pc, call, pre, ret, err>>

(* ------------------------------ bounds --------------------------------- *)
\* receiver coefficients range over -MaxCoeff..MaxCoeff
MaxCoeff == 6
\* argument coefficients range over -MaxArg..MaxArg
MaxArg == MaxCoeff \div 2
\* scales (digits fields) of constructed values range over -MaxDigits..MaxDigits
MaxDigits == 1
\* integer digit-count arguments range over -MaxTarget..MaxTarget
MaxTarget == 1

(* --------------------------- program constants ------------------------- *)
DEFAULT_DIVISION_PRECISION == 18

(* ------------------------------ values --------------------------------- *)
D(c, d) == [coeff |-> c, digits |-> d]

\* the module constant DECIMAL_ONE = new DecimalImpl(1n) is one object, made
\* when the module is loaded and shared by every call from then on
DECIMAL_ONE == "one"
ModuleObjects == (DECIMAL_ONE :> D(1, 0))

RoundingModes == {"trunc", "floor", "ceil", "round"}

\* a `bigint | number | undefined` digits argument: omitted, an integer,
\* or a non-integer number such as 1.5
DigitsUndef == [kind |-> "undef", val |-> 0]
DigitsFrac == [kind |-> "frac", val |-> 0]
DigitsInt(n) == [kind |-> "int", val |-> n]

abs(value) == IF value < 0 THEN -value ELSE value

\* bigint `/`: truncates toward zero
BigIntDiv(a, b) ==
  IF (a >= 0) = (b > 0) THEN abs(a) \div abs(b) ELSE -(abs(a) \div abs(b))

\* bigint `%`: the remainder takes the sign of the dividend
BigIntRem(a, b) == a - BigIntDiv(a, b) * b

pow10n(n) == 10 ^ n

max2(a, b) == IF a > b THEN a ELSE b

\* alignForOperation without the scaling of the second coefficient
alignForOperation_unscaled(a, b) ==
  LET digits == max2(a.digits, b.digits)
      aDiff == digits - a.digits
  IN [digits |-> digits,
      aCoeff |-> a.coeff * pow10n(aDiff),
      bCoeff |-> b.coeff]

alignForOperation(a, b) ==
  LET digits == max2(a.digits, b.digits)
      aDiff == digits - a.digits
      bDiff == digits - b.digits
  IN [digits |-> digits,
      aCoeff |-> a.coeff * pow10n(aDiff),
      bCoeff |-> b.coeff * pow10n(bDiff)]

isZero(v) == v.coeff = 0
isPositive(v) == v.coeff > 0
isNegative(v) == v.coeff < 0

cmp(a, b) ==
  LET al == alignForOperation(a, b)
  IN IF al.aCoeff = al.bCoeff THEN 0
     ELSE IF al.aCoeff > al.bCoeff THEN 1 ELSE -1


(* --------------------- outcomes of a method body ----------------------- *)
\* a method body either returns (err = "") or throws err; h is the heap as
\* the body left it, including whatever it had assigned before throwing
Ok(h) == [h |-> h, err |-> ""]
Throw(h, msg) == [h |-> h, err |-> msg]

\* the value of a digits argument once its default is applied
OrDefault(digits, default) == IF digits.kind = "undef" THEN default ELSE digits.val

\* ensureInteger throws on a non-integer number
ensureIntegerThrows(value) == value.kind = "frac"

ensureDigits(n) == IF n < 0 THEN 0 ELSE n

(* ------------------------ private helpers ------------------------------ *)
p_set_(h, self, coeff, digits) == [h EXCEPT ![self] = D(coeff, digits)]

\* clone handing back the receiver instead of a copy
clone_shared(h, self) == [h |-> h, ref |-> self]

\* the clone is a new object holding a copy of both fields
clone(h, self) == [h |-> ("r" :> h[self]) @@ h, ref |-> "r"]

\* #div$: divisor is read in full before the receiver is assigned
p_div_(h, self, divisor, targetDigits, mode) ==
  LET shift == divisor.digits + targetDigits - h[self].digits
      numerator == IF shift >= 0 THEN h[self].coeff * pow10n(shift) ELSE h[self].coeff
      denominator == IF shift >= 0 THEN divisor.coeff ELSE divisor.coeff * pow10n(-shift)
      quotient0 == BigIntDiv(numerator, denominator)
      remainder == numerator - quotient0 * denominator
      positive == numerator >= 0
      quotient ==
        IF remainder # 0 /\ mode # "trunc"
        THEN CASE mode = "floor" -> IF ~positive THEN quotient0 - 1 ELSE quotient0
               [] mode = "ceil" -> IF positive THEN quotient0 + 1 ELSE quotient0
               [] mode = "round" ->
                    LET absRemainder == abs(remainder)
                        threshold == IF denominator < 0 THEN -denominator ELSE denominator
                    IN IF absRemainder * 2 >= threshold
                       THEN quotient0 + (IF positive THEN 1 ELSE -1)
                       ELSE quotient0
               [] OTHER -> quotient0
        ELSE quotient0
  IN p_set_(h, self, quotient, targetDigits)

\* #rescale$ that drops its mode and always truncates
p_rescale_modeDropped(h, self, targetDigits, mode) ==
  IF ensureIntegerThrows(targetDigits) THEN Throw(h, "Digits must be an integer")
  ELSE LET normalized == targetDigits.val IN
    IF isZero(h[self]) THEN Ok([h EXCEPT ![self].digits = normalized])
    ELSE IF normalized = h[self].digits THEN Ok(h)
    ELSE IF normalized > h[self].digits
      THEN Ok([h EXCEPT ![self] = D(h[self].coeff * pow10n(normalized - h[self].digits),
                                    normalized)])
    ELSE Ok(p_div_(h, self, h[DECIMAL_ONE], normalized, "trunc"))

\* #rescale$
p_rescale_(h, self, targetDigits, mode) ==
  IF ensureIntegerThrows(targetDigits) THEN Throw(h, "Digits must be an integer")
  ELSE LET normalized == targetDigits.val IN
    IF isZero(h[self]) THEN Ok([h EXCEPT ![self].digits = normalized])
    ELSE IF normalized = h[self].digits THEN Ok(h)
    ELSE IF normalized > h[self].digits
      THEN Ok([h EXCEPT ![self] = D(h[self].coeff * pow10n(normalized - h[self].digits),
                                    normalized)])
    ELSE Ok(p_div_(h, self, h[DECIMAL_ONE], normalized, mode))

RECURSIVE StripLoop(_)
StripLoop(v) ==
  IF v.digits > 0 /\ BigIntRem(v.coeff, 10) = 0
  THEN StripLoop(D(BigIntDiv(v.coeff, 10), v.digits - 1))
  ELSE v

\* #stripTrailingZeros$ dropping a digit without looking at it
p_stripTrailingZeros_unchecked(h, self) ==
  IF h[self].digits <= 0 \/ h[self].coeff = 0 THEN h
  ELSE [h EXCEPT ![self] = D(BigIntDiv(h[self].coeff, 10), h[self].digits - 1)]

\* #stripTrailingZeros$
p_stripTrailingZeros_(h, self) ==
  IF h[self].digits <= 0 \/ h[self].coeff = 0 THEN h
  ELSE [h EXCEPT ![self] = StripLoop(h[self])]

(* --------------------- rounding and scaling ---------------------------- *)
round_(h, self, digits, force) ==
  IF ensureIntegerThrows(digits) THEN Throw(h, "Digits must be an integer")
  ELSE LET normalized == OrDefault(digits, 0) IN
    IF ~force /\ h[self].digits <= normalized THEN Ok(h)
    ELSE p_rescale_(h, self, DigitsInt(normalized), "round")

floor_(h, self, digits, force) ==
  IF ensureIntegerThrows(digits) THEN Throw(h, "Digits must be an integer")
  ELSE LET normalized == OrDefault(digits, 0) IN
    IF ~force /\ h[self].digits <= normalized THEN Ok(h)
    ELSE p_rescale_(h, self, DigitsInt(normalized), "floor")

ceil_(h, self, digits, force) ==
  IF ensureIntegerThrows(digits) THEN Throw(h, "Digits must be an integer")
  ELSE LET normalized == OrDefault(digits, 0) IN
    IF ~force /\ h[self].digits <= normalized THEN Ok(h)
    ELSE p_rescale_(h, self, DigitsInt(normalized), "ceil")

\* trunc$ that skips the rescale whenever the scale is coarse enough, forced or not
trunc_unforced(h, self, digits, force) ==
  IF ensureIntegerThrows(digits) THEN Throw(h, "Digits must be an integer")
  ELSE LET normalized == OrDefault(digits, 0) IN
    IF h[self].digits <= normalized THEN Ok(h)
    ELSE p_rescale_(h, self, DigitsInt(normalized), "trunc")

trunc_(h, self, digits, force) ==
  IF ensureIntegerThrows(digits) THEN Throw(h, "Digits must be an integer")
  ELSE LET normalized == OrDefault(digits, 0) IN
    IF ~force /\ h[self].digits <= normalized THEN Ok(h)
    ELSE p_rescale_(h, self, DigitsInt(normalized), "trunc")

rescale_(h, self, digits, mode) ==
  IF digits.kind = "undef" THEN Ok(p_stripTrailingZeros_(h, self))
  ELSE p_rescale_(h, self, digits, mode)

(* ---------------------------- arithmetic ------------------------------- *)
neg_(h, self) == Ok([h EXCEPT ![self].coeff = -h[self].coeff])

abs_(h, self) ==
  Ok(IF isNegative(h[self]) THEN [h EXCEPT ![self].coeff = -h[self].coeff] ELSE h)

add_(h, self, v) ==
  LET al == alignForOperation(h[self], h[v])
  IN Ok(p_set_(h, self, al.aCoeff + al.bCoeff, al.digits))

\* sub$ written as this.neg$().add$(v).neg$(): v is read after the receiver
\* has been negated
sub_negated(h, self, v) ==
  LET h1 == [h EXCEPT ![self].coeff = -h[self].coeff]
      al == alignForOperation(h1[self], h1[v])
  IN Ok(p_set_(h1, self, -(al.aCoeff + al.bCoeff), al.digits))

sub_(h, self, v) ==
  LET al == alignForOperation(h[self], h[v])
  IN Ok(p_set_(h, self, al.aCoeff - al.bCoeff, al.digits))

mul_(h, self, v, digits) ==
  LET h1 == [h EXCEPT ![self].coeff = h[self].coeff * h[v].coeff]
      h2 == [h1 EXCEPT ![self].digits = h1[self].digits + h1[v].digits]
  IN IF digits.kind # "undef" THEN round_(h2, self, digits, FALSE) ELSE Ok(h2)

shift10_(h, self, exponent) ==
  IF ensureIntegerThrows(exponent) THEN Throw(h, "Shift amount must be an integer")
  ELSE IF exponent.val = 0 THEN Ok(h)
  ELSE Ok([h EXCEPT ![self].digits = h[self].digits - exponent.val])

\* div$ that looks at the dividend before the divisor
div_dividendFirst(h, self, v, digits, mode) ==
  LET stripTrailingZeros == digits.kind = "undef" IN
  IF ensureIntegerThrows(digits) THEN Throw(h, "Digits must be an integer")
  ELSE LET targetDigits == ensureDigits(OrDefault(digits, DEFAULT_DIVISION_PRECISION))
           divisor == h[v]
       IN IF isZero(h[self]) THEN Ok(h)
          ELSE IF isZero(divisor) THEN Throw(h, "Division by zero")
          ELSE LET h1 == p_div_(h, self, divisor, targetDigits, mode)
               IN Ok(IF stripTrailingZeros THEN p_stripTrailingZeros_(h1, self) ELSE h1)

\* div$ that returns a zero dividend at scale 0
div_zeroNormalised(h, self, v, digits, mode) ==
  LET stripTrailingZeros == digits.kind = "undef" IN
  IF ensureIntegerThrows(digits) THEN Throw(h, "Digits must be an integer")
  ELSE LET targetDigits == ensureDigits(OrDefault(digits, DEFAULT_DIVISION_PRECISION))
           divisor == h[v]
       IN IF isZero(divisor) THEN Throw(h, "Division by zero")
          ELSE IF isZero(h[self]) THEN Ok(p_set_(h, self, 0, 0))
          ELSE LET h1 == p_div_(h, self, divisor, targetDigits, mode)
               IN Ok(IF stripTrailingZeros THEN p_stripTrailingZeros_(h1, self) ELSE h1)

div_(h, self, v, digits, mode) ==
  LET stripTrailingZeros == digits.kind = "undef" IN
  IF ensureIntegerThrows(digits) THEN Throw(h, "Digits must be an integer")
  ELSE LET targetDigits == ensureDigits(OrDefault(digits, DEFAULT_DIVISION_PRECISION))
           divisor == h[v]
       IN IF isZero(divisor) THEN Throw(h, "Division by zero")
          ELSE IF isZero(h[self]) THEN Ok(h)
          ELSE LET h1 == p_div_(h, self, divisor, targetDigits, mode)
               IN Ok(IF stripTrailingZeros THEN p_stripTrailingZeros_(h1, self) ELSE h1)

inverse_(h, self, digits) ==
  IF isZero(h[self]) THEN Throw(h, "Division by zero")
  ELSE IF ensureIntegerThrows(digits) THEN Throw(h, "Digits must be an integer")
  ELSE LET target == ensureDigits(OrDefault(digits, DEFAULT_DIVISION_PRECISION))
           \* const divisor = this.clone()
           h1 == ("m" :> h[self]) @@ h
       IN div_(p_set_(h1, self, 1, 0), self, "m", DigitsInt(target), "round")

mod_(h, self, v) ==
  IF isZero(h[v]) THEN Throw(h, "Division by zero")
  ELSE LET al == alignForOperation(h[self], h[v])
       IN Ok(p_set_(h, self, BigIntRem(al.aCoeff, al.bCoeff), al.digits))

\* modPositive$ without the correction of a negative remainder
modPositive_uncorrected(h, self, v) ==
  IF isNegative(h[v]) THEN Throw(h, "Modulo divisor must be positive")
  ELSE mod_(h, self, v)

modPositive_(h, self, v) ==
  IF isNegative(h[v]) THEN Throw(h, "Modulo divisor must be positive")
  ELSE LET o == mod_(h, self, v)
       IN IF o.err # "" THEN o
          ELSE IF isNegative(o.h[self]) THEN add_(o.h, self, v) ELSE o

(* ------------------------- stepped alignment --------------------------- *)
\* roundBy$ dividing by the step as given, not by its absolute value
roundBy_signedStep(h, self, step, mode) ==
  LET h1 == ("m" :> h[step]) @@ h
  IN IF isZero(h1["m"]) THEN Throw(h1, "Cannot align to zero")
     ELSE LET o == div_(h1, self, "m", DigitsInt(0), mode)
          IN IF o.err # "" THEN o ELSE mul_(o.h, self, "m", DigitsUndef)

roundBy_(h, self, step, mode) ==
  \* const multiple = new DecimalImpl(step).abs(): a fresh object
  LET h1 == ("m" :> D(abs(h[step].coeff), h[step].digits)) @@ h
  IN IF isZero(h1["m"]) THEN Throw(h1, "Cannot align to zero")
     ELSE LET o == div_(h1, self, "m", DigitsInt(0), mode)
          IN IF o.err # "" THEN o ELSE mul_(o.h, self, "m", DigitsUndef)

floorBy_(h, self, step) == roundBy_(h, self, step, "floor")
ceilBy_(h, self, step) == roundBy_(h, self, step, "ceil")
truncBy_(h, self, step) == roundBy_(h, self, step, "trunc")

\* split$ taking its copy of the original after the rescale
split_cloneLate(h, self, digits, mode) ==
  LET o == p_rescale_(h, self, IF digits.kind = "undef" THEN DigitsInt(0) ELSE digits, mode)
  IN IF o.err # "" THEN o ELSE sub_(("r2" :> o.h[self]) @@ o.h, "r2", self)

\* #splitWith with the two closures of split$ and splitBy$: `original` is a
\* fresh clone, returned as the second element after original.sub$(this)
split_(h, self, digits, mode) ==
  LET h1 == ("r2" :> h[self]) @@ h
      \* value.#rescale$(digits ?? 0n, mode)
      o == p_rescale_(h1, self, IF digits.kind = "undef" THEN DigitsInt(0) ELSE digits, mode)
  IN IF o.err # "" THEN o ELSE sub_(o.h, "r2", self)

splitBy_(h, self, step, mode) ==
  LET h1 == ("r2" :> h[self]) @@ h
      o == roundBy_(h1, self, step, mode)
  IN IF o.err # "" THEN o ELSE sub_(o.h, "r2", self)


(* ----------------------------- the caller ------------------------------ *)
\* heap objects: "x" is the caller's Decimal; "v" a non-Decimal argument
\* converted by Decimal(v); "r" a clone; "r2" and "m" objects made by a body;
\* "one" the module's DECIMAL_ONE
NoCall ==
  [op |-> "none", inplace |-> FALSE, self |-> "none", arg |-> "none",
   digits |-> DigitsUndef, mode |-> "none", force |-> FALSE]
NoRet == [a |-> "none", b |-> "none"]

Coeffs == (-MaxCoeff)..MaxCoeff
Scales == (-MaxDigits)..MaxDigits
ArgValues == {D(c, d) : c \in (-MaxArg)..MaxArg, d \in Scales}
\* an argument is the receiver itself (alias) or a {coeff, digits} payload
ArgChoices == {[alias |-> TRUE, val |-> D(0, 0)]}
                \cup {[alias |-> FALSE, val |-> a] : a \in ArgValues}
IntDigits == {DigitsInt(n) : n \in (-MaxTarget)..MaxTarget}
DigitsArgs == {DigitsUndef, DigitsFrac} \cup IntDigits

\* Decimal(v): a Decimal is returned as it is, anything else is wrapped in a
\* new DecimalImpl, the object `fresh` of the heap
\* Decimal(v) copying a Decimal it is given into a new object
DecimalAs_copy(h, a, fresh) ==
  [h |-> (fresh :> (IF a.alias THEN h["x"] ELSE a.val)) @@ h, ref |-> fresh]

DecimalAs(h, a, fresh) ==
  IF a.alias THEN [h |-> h, ref |-> "x"] ELSE [h |-> (fresh :> a.val) @@ h, ref |-> fresh]

Decimal(h, a) == DecimalAs(h, a, "v")

\* op$ runs on the caller's object, op on this.clone()
Receiver(h, inplace) == IF inplace THEN [h |-> h, ref |-> "x"] ELSE clone(h, "x")

InBounds(v) == abs(v.coeff) <= MaxCoeff /\ abs(v.digits) <= MaxDigits

\* what stays when the caller drops its handles: the module's objects as
\* the calls so far have left them
Kept(h) == (DECIMAL_ONE :> h[DECIMAL_ONE])

Idle == pc = "idle" /\ InBounds(heap["x"])

\* the numbers of the call stay within what the model computes: with the
\* default precision of 18 digits only the paths that return before #div$
Fits(digits) ==
  ensureIntegerThrows(digits) \/ ensureDigits(OrDefault(digits, DEFAULT_DIVISION_PRECISION)) <= MaxTarget

Return(op, inplace, arg, digits, mode, force, h0, self, o, second) ==
  /\ pc' = "returned"
  /\ call' = [op |-> op, inplace |-> inplace, self |-> self, arg |-> arg,
              digits |-> digits, mode |-> mode, force |-> force]
  /\ pre' = h0
  /\ heap' = o.h
  /\ err' = o.err
  /\ ret' = IF o.err = "" THEN [a |-> self, b |-> second] ELSE NoRet

Init ==
  /\ heap \in {("x" :> D(c, d)) @@ ModuleObjects : c \in Coeffs, d \in Scales}
  /\ pc = "idle"
  /\ call = NoCall
  /\ pre = heap
  /\ ret = NoRet
  /\ err = ""

\* Decimal({coeff, digits}): the caller takes a new value
Construct(c, d) ==
  /\ pc = "idle"
  /\ heap' = ("x" :> D(c, d)) @@ Kept(heap)
  /\ pre' = heap'
  /\ UNCHANGED <<pc, call, ret, err>>

\* the caller goes on, keeping its object or the returned one
Continue(adopt) ==
  /\ pc = "returned"
  /\ heap' = ("x" :> heap[IF adopt /\ ret.a # "none" THEN ret.a ELSE "x"]) @@ Kept(heap)
  /\ pre' = heap'
  /\ pc' = "idle"
  /\ call' = NoCall
  /\ ret' = NoRet
  /\ err' = ""

Add(inplace, a) ==
  /\ Idle
  /\ LET p == Decimal(heap, a)
         r == Receiver(p.h, inplace)
     IN Return("add", inplace, p.ref, DigitsUndef, "none", FALSE, p.h, r.ref,
               add_(r.h, r.ref, p.ref), "none")

Sub(inplace, a) ==
  /\ Idle
  /\ LET p == Decimal(heap, a)
         r == Receiver(p.h, inplace)
     IN Return("sub", inplace, p.ref, DigitsUndef, "none", FALSE, p.h, r.ref,
               sub_(r.h, r.ref, p.ref), "none")

Mul(inplace, a, digits) ==
  /\ Idle
  /\ LET p == Decimal(heap, a)
         r == Receiver(p.h, inplace)
     IN Return("mul", inplace, p.ref, digits, "none", FALSE, p.h, r.ref,
               mul_(r.h, r.ref, p.ref, digits), "none")

Div(inplace, a, digits, mode) ==
  /\ Idle
  /\ LET p == Decimal(heap, a)
         r == Receiver(p.h, inplace)
     IN /\ Fits(digits) \/ isZero(p.h[p.ref]) \/ isZero(heap["x"])
        /\ Return("div", inplace, p.ref, digits, mode, FALSE, p.h, r.ref,
                  div_(r.h, r.ref, p.ref, digits, mode), "none")

Inverse(inplace, digits) ==
  /\ Idle
  /\ Fits(digits) \/ isZero(heap["x"])
  /\ LET r == Receiver(heap, inplace)
     IN Return("inverse", inplace, "none", digits, "none", FALSE, heap, r.ref,
               inverse_(r.h, r.ref, digits), "none")

Mod(inplace, a) ==
  /\ Idle
  /\ LET p == Decimal(heap, a)
         r == Receiver(p.h, inplace)
     IN Return("mod", inplace, p.ref, DigitsUndef, "none", FALSE, p.h, r.ref,
               mod_(r.h, r.ref, p.ref), "none")

ModPositive(inplace, a) ==
  /\ Idle
  /\ LET p == Decimal(heap, a)
         r == Receiver(p.h, inplace)
     IN Return("modPositive", inplace, p.ref, DigitsUndef, "none", FALSE, p.h, r.ref,
               modPositive_(r.h, r.ref, p.ref), "none")

\* neg$ and neg declare no parameter: a boolean the caller passes, kept in
\* the force field of the call, never reaches the body
Neg(inplace, flag) ==
  /\ Idle
  /\ LET r == Receiver(heap, inplace)
     IN Return("neg", inplace, "none", DigitsUndef, "none", flag, heap, r.ref,
               neg_(r.h, r.ref), "none")

Abs(inplace) ==
  /\ Idle
  /\ LET r == Receiver(heap, inplace)
     IN Return("abs", inplace, "none", DigitsUndef, "none", FALSE, heap, r.ref,
               abs_(r.h, r.ref), "none")

Shift10(inplace, exponent) ==
  /\ Idle
  /\ exponent.kind # "undef"
  /\ LET r == Receiver(heap, inplace)
     IN Return("shift10", inplace, "none", exponent, "none", FALSE, heap, r.ref,
               shift10_(r.h, r.ref, exponent), "none")

Round(inplace, digits, force) ==
  /\ Idle
  /\ LET r == Receiver(heap, inplace)
     IN Return("round", inplace, "none", digits, "round", force, heap, r.ref,
               round_(r.h, r.ref, digits, force), "none")

Floor(inplace, digits, force) ==
  /\ Idle
  /\ LET r == Receiver(heap, inplace)
     IN Return("floor", inplace, "none", digits, "floor", force, heap, r.ref,
               floor_(r.h, r.ref, digits, force), "none")

Ceil(inplace, digits, force) ==
  /\ Idle
  /\ LET r == Receiver(heap, inplace)
     IN Return("ceil", inplace, "none", digits, "ceil", force, heap, r.ref,
               ceil_(r.h, r.ref, digits, force), "none")

Trunc(inplace, digits, force) ==
  /\ Idle
  /\ LET r == Receiver(heap, inplace)
     IN Return("trunc", inplace, "none", digits, "trunc", force, heap, r.ref,
               trunc_(r.h, r.ref, digits, force), "none")

\* rescale() with no digits only strips zeros, so it also runs on a result
\* the caller adopted that is past the bounds of constructed values
Rescale(inplace, digits, mode) ==
  /\ pc = "idle" /\ (InBounds(heap["x"]) \/ digits.kind = "undef")
  /\ LET r == Receiver(heap, inplace)
     IN Return("rescale", inplace, "none", digits, mode, FALSE, heap, r.ref,
               rescale_(r.h, r.ref, digits, mode), "none")

RoundBy(inplace, a, mode) ==
  /\ Idle
  /\ LET p == Decimal(heap, a)
         r == Receiver(p.h, inplace)
     IN Return("roundBy", inplace, p.ref, DigitsUndef, mode, FALSE, p.h, r.ref,
               roundBy_(r.h, r.ref, p.ref, mode), "none")

FloorBy(inplace, a) ==
  /\ Idle
  /\ LET p == Decimal(heap, a)
         r == Receiver(p.h, inplace)
     IN Return("floorBy", inplace, p.ref, DigitsUndef, "floor", FALSE, p.h, r.ref,
               floorBy_(r.h, r.ref, p.ref), "none")

CeilBy(inplace, a) ==
  /\ Idle
  /\ LET p == Decimal(heap, a)
         r == Receiver(p.h, inplace)
     IN Return("ceilBy", inplace, p.ref, DigitsUndef, "ceil", FALSE, p.h, r.ref,
               ceilBy_(r.h, r.ref, p.ref), "none")

TruncBy(inplace, a) ==
  /\ Idle
  /\ LET p == Decimal(heap, a)
         r == Receiver(p.h, inplace)
     IN Return("truncBy", inplace, p.ref, DigitsUndef, "trunc", FALSE, p.h, r.ref,
               truncBy_(r.h, r.ref, p.ref), "none")

\* split$ and split return the pair [this, original]
Split(inplace, digits, mode) ==
  /\ Idle
  /\ LET r == Receiver(heap, inplace)
     IN Return("split", inplace, "none", digits, mode, FALSE, heap, r.ref,
               split_(r.h, r.ref, digits, mode), "r2")

SplitBy(inplace, a, mode) ==
  /\ Idle
  /\ LET p == Decimal(heap, a)
         r == Receiver(p.h, inplace)
     IN Return("splitBy", inplace, p.ref, DigitsUndef, mode, FALSE, p.h, r.ref,
               splitBy_(r.h, r.ref, p.ref, mode), "r2")

Next ==
  \/ \E c \in Coeffs, d \in Scales : Construct(c, d)
  \/ \E adopt \in BOOLEAN : Continue(adopt)
  \/ \E inplace \in BOOLEAN, a \in ArgChoices : Add(inplace, a)
  \/ \E inplace \in BOOLEAN, a \in ArgChoices : Sub(inplace, a)
  \/ \E inplace \in BOOLEAN, a \in ArgChoices, digits \in DigitsArgs : Mul(inplace, a, digits)
  \/ \E inplace \in BOOLEAN, a \in ArgChoices, digits \in DigitsArgs, mode \in RoundingModes :
       Div(inplace, a, digits, mode)
  \/ \E inplace \in BOOLEAN, digits \in DigitsArgs : Inverse(inplace, digits)
  \/ \E inplace \in BOOLEAN, a \in ArgChoices : Mod(inplace, a)
  \/ \E inplace \in BOOLEAN, a \in ArgChoices : ModPositive(inplace, a)
  \/ \E inplace \in BOOLEAN, flag \in BOOLEAN : Neg(inplace, flag)
  \/ \E inplace \in BOOLEAN : Abs(inplace)
  \/ \E inplace \in BOOLEAN, exponent \in DigitsArgs : Shift10(inplace, exponent)
  \/ \E inplace \in BOOLEAN, digits \in DigitsArgs, force \in BOOLEAN : Round(inplace, digits, force)
  \/ \E inplace \in BOOLEAN, digits \in DigitsArgs, force \in BOOLEAN : Floor(inplace, digits, force)
  \/ \E inplace \in BOOLEAN, digits \in DigitsArgs, force \in BOOLEAN : Ceil(inplace, digits, force)
  \/ \E inplace \in BOOLEAN, digits \in DigitsArgs, force \in BOOLEAN : Trunc(inplace, digits, force)
  \/ \E inplace \in BOOLEAN, digits \in DigitsArgs, mode \in RoundingModes :
       Rescale(inplace, digits, mode)
  \/ \E inplace \in BOOLEAN, a \in ArgChoices, mode \in RoundingModes : RoundBy(inplace, a, mode)
  \/ \E inplace \in BOOLEAN, a \in ArgChoices : FloorBy(inplace, a)
  \/ \E inplace \in BOOLEAN, a \in ArgChoices : CeilBy(inplace, a)
  \/ \E inplace \in BOOLEAN, a \in ArgChoices : TruncBy(inplace, a)
  \/ \E inplace \in BOOLEAN, digits \in DigitsArgs, mode \in RoundingModes :
       Split(inplace, digits, mode)
  \/ \E inplace \in BOOLEAN, a \in ArgChoices, mode \in RoundingModes : SplitBy(inplace, a, mode)

Spec == Init /\ [][Next]_vars


(* ====================== strings: parsing and rendering ================= *)
\* a string is a sequence of one-character strings
\* strings given to the constructor have at most MaxLen characters
MaxLen == 4

Chars == {"0", "1", "5", "+", "-", ".", "e", " "}
Strings == UNION {[1..n -> Chars] : n \in 0..MaxLen}

DecimalDigits == <<"0", "1", "2", "3", "4", "5", "6", "7", "8", "9">>
IsDigit(c) == \E i \in 1..10 : DecimalDigits[i] = c
DigitValue(c) == (CHOOSE i \in 1..10 : DecimalDigits[i] = c) - 1

RECURSIVE trimStart(_)
trimStart(s) == IF s # <<>> /\ Head(s) = " " THEN trimStart(Tail(s)) ELSE s

RECURSIVE trimEnd(_)
trimEnd(s) ==
  IF s # <<>> /\ s[Len(s)] = " " THEN trimEnd(SubSeq(s, 1, Len(s) - 1)) ELSE s

\* String.prototype.trim
trim(s) == trimEnd(trimStart(s))

\* s.slice(start, end) and s.slice(start), indices counted from 0
slice(s, start, end) == SubSeq(s, start + 1, end)
sliceFrom(s, start) == SubSeq(s, start + 1, Len(s))

\* s.indexOf(c) and s.search(/[eE]/): the first index from 0, or -1
indexOf(s, cs) ==
  IF \E i \in 1..Len(s) : s[i] \in cs
  THEN (CHOOSE i \in 1..Len(s) : s[i] \in cs /\ \A j \in 1..(i - 1) : s[j] \notin cs) - 1
  ELSE -1

\* s.replace(/^0+/, '')
RECURSIVE stripLeadingZeros(_)
stripLeadingZeros(s) ==
  IF s # <<>> /\ Head(s) = "0" THEN stripLeadingZeros(Tail(s)) ELSE s

RECURSIVE DigitsValue(_)
DigitsValue(s) ==
  IF s = <<>> THEN 0
  ELSE DigitsValue(SubSeq(s, 1, Len(s) - 1)) * 10 + DigitValue(s[Len(s)])

\* BigInt(string): white space around the text is dropped, the empty text
\* is 0n, otherwise an optional sign and decimal digits; anything else is a
\* SyntaxError (the 0x, 0o and 0b forms need letters the strings here lack)
BigInt(s) ==
  LET t == trim(s)
      signed == t # <<>> /\ Head(t) \in {"+", "-"}
      body == IF signed THEN Tail(t) ELSE t
  IN IF t = <<>> THEN [ok |-> TRUE, val |-> 0]
     ELSE IF body = <<>> \/ \E i \in 1..Len(body) : ~IsDigit(body[i])
       THEN [ok |-> FALSE, val |-> 0]
     ELSE [ok |-> TRUE, val |-> (IF Head(t) = "-" THEN -1 ELSE 1) * DigitsValue(body)]

Parsed(coeff, digits) == [err |-> "", coeff |-> coeff, digits |-> digits]
ParseError(msg) == [err |-> msg, coeff |-> 0, digits |-> 0]

parsePlainDecimal(input) ==
  IF input = <<>> THEN ParseError("Invalid number")
  ELSE LET sign == IF input[1] = "-" THEN -1 ELSE 1
           str == IF input[1] \in {"-", "+"} THEN sliceFrom(input, 1) ELSE input
       IN IF str = <<>> THEN ParseError("Invalid number")
          ELSE LET dotIndex == indexOf(str, {"."})
                   intPart0 == IF dotIndex >= 0 THEN slice(str, 0, dotIndex) ELSE str
                   fracPart == IF dotIndex >= 0 THEN sliceFrom(str, dotIndex + 1) ELSE <<>>
                   intPart == IF intPart0 = <<>> THEN <<"0">> ELSE intPart0
                   combined == stripLeadingZeros(intPart \o fracPart)
                   coeffStr == IF combined = <<>> THEN <<"0">> ELSE combined
                   coeff == BigInt(coeffStr)
               IN IF ~coeff.ok THEN ParseError("SyntaxError")
                  ELSE Parsed(sign * coeff.val, Len(fracPart))

parseDecimalString(value) ==
  LET exponentIndex == indexOf(value, {"e", "E"})
  IN IF exponentIndex = -1 THEN parsePlainDecimal(value)
     ELSE LET basePart == slice(value, 0, exponentIndex)
              exponentPart == sliceFrom(value, exponentIndex + 1)
          IN IF trim(exponentPart) = <<>> THEN ParseError("Invalid number")
             ELSE LET p == parsePlainDecimal(basePart)
                      adjustment == BigInt(exponentPart)
                  IN IF p.err # "" THEN p
                     ELSE IF ~adjustment.ok THEN ParseError("SyntaxError")
                     ELSE Parsed(p.coeff, p.digits - adjustment.val)

\* new DecimalImpl(v) for a string v: the object exists only if nothing threw
DecimalImpl_string(h, v) ==
  LET trimmed == trim(v)
  IN IF trimmed = <<>> THEN Throw(h, "Invalid number")
     ELSE LET p == parseDecimalString(trimmed)
          IN IF p.err # "" THEN Throw(h, p.err)
             ELSE Ok(("x" :> D(p.coeff, p.digits)) @@ h)

RECURSIVE BigIntToString(_)
\* n.toString() for n >= 0
BigIntToString(n) ==
  IF n < 10 THEN <<DecimalDigits[n + 1]>>
  ELSE BigIntToString(n \div 10) \o <<DecimalDigits[(n % 10) + 1]>>

\* c.repeat(n)
repeat(c, n) == [i \in 1..n |-> c]
padStart(s, targetLength, c) ==
  IF Len(s) >= targetLength THEN s ELSE repeat(c, targetLength - Len(s)) \o s
padEnd(s, targetLength, c) ==
  IF Len(s) >= targetLength THEN s ELSE s \o repeat(c, targetLength - Len(s))

toString(v) ==
  IF v.coeff = 0
  THEN IF v.digits <= 0 THEN <<"0">> ELSE <<"0", ".">> \o repeat("0", v.digits)
  ELSE LET negative == v.coeff < 0
           sign == IF negative THEN <<"-">> ELSE <<>>
           coeffDigits == BigIntToString(IF negative THEN -v.coeff ELSE v.coeff)
       IN IF v.digits <= 0 THEN sign \o coeffDigits \o repeat("0", -v.digits)
          ELSE LET decimals == v.digits
                   padded == padStart(coeffDigits, decimals + 1, "0")
                   split == Len(padded) - decimals
                   integerPart == slice(padded, 0, split)
                   fractionPart == padEnd(sliceFrom(padded, split), decimals, "0")
               IN sign \o integerPart \o <<".">> \o fractionPart

Rendered(h, str) == [h |-> h, err |-> "", str |-> str]
RenderError(h, msg) == [h |-> h, err |-> msg, str |-> <<>>]

\* toFixed rounding without force: a value of fewer digits is not padded
toFixed_unforced(h, self, fractionDigits) ==
  IF ensureIntegerThrows(fractionDigits) \/ fractionDigits.val < 0
  THEN RenderError(h, "Fraction digits must be a non-negative integer")
  ELSE LET c == clone(h, self)
           o == round_(c.h, c.ref, fractionDigits, FALSE)
       IN Rendered(o.h, toString(o.h[c.ref]))

\* toFixed: this.round(digits, true).toString()
toFixed(h, self, fractionDigits) ==
  IF ensureIntegerThrows(fractionDigits) \/ fractionDigits.val < 0
  THEN RenderError(h, "Fraction digits must be a non-negative integer")
  ELSE LET c == clone(h, self)
           o == round_(c.h, c.ref, fractionDigits, TRUE)
       IN Rendered(o.h, toString(o.h[c.ref]))

\* Decimal(s) for a string s, as the first thing the caller does
ConstructString(s) ==
  /\ pc = "idle"
  /\ "x" \notin DOMAIN heap
  /\ LET o == DecimalImpl_string(heap, s)
     IN /\ pc' = "returned"
        /\ call' = [NoCall EXCEPT !.op = "Decimal", !.self = "x", !.arg = s]
        /\ pre' = heap
        /\ heap' = o.h
        /\ err' = o.err
        /\ ret' = IF o.err = "" THEN [a |-> "x", b |-> "none"] ELSE NoRet

\* the rescale of toFixed stays within the integers of the model
FitsText(v, n) ==
  n.kind = "int" => Len(BigIntToString(abs(v.coeff))) + abs(n.val - v.digits) <= 9

ToFixed(fractionDigits) ==
  /\ pc = "idle"
  /\ "x" \in DOMAIN heap
  /\ FitsText(heap["x"], fractionDigits)
  /\ LET o == toFixed(heap, "x", fractionDigits)
     IN /\ pc' = "returned"
        /\ call' = [NoCall EXCEPT !.op = "toFixed", !.self = "x", !.digits = fractionDigits]
        /\ pre' = heap
        /\ heap' = o.h
        /\ err' = o.err
        /\ ret' = [a |-> "none", b |-> "none", str |-> o.str]

\* the caller keeps the value it constructed
Keep ==
  /\ "x" \in DOMAIN heap
  /\ Continue(FALSE)

\* the caller starts again with another string
Restart ==
  /\ pc = "returned"
  /\ heap' = Kept(heap)
  /\ pre' = heap'
  /\ pc' = "idle"
  /\ call' = NoCall
  /\ ret' = NoRet
  /\ err' = ""

InitText ==
  /\ heap = ModuleObjects
  /\ pc = "idle"
  /\ call = NoCall
  /\ pre = heap
  /\ ret = NoRet
  /\ err = ""

NextText ==
  \/ \E s \in Strings : ConstructString(s)
  \/ \E fractionDigits \in {DigitsFrac} \cup IntDigits : ToFixed(fractionDigits)
  \/ Keep
  \/ Restart

SpecText == InitText /\ [][NextText]_vars

(* ============================ pow ====================================== *)
\* integer exponents range over -MaxExp..MaxExp, written at scale 0 or 1
MaxExp == 3

\* powInt: square and multiply; h holds the objects `result` and `factor`
RECURSIVE powIntLoop(_, _, _)
powIntLoop(h, exponent, digits) ==
  LET h1 == IF exponent % 2 = 1 THEN mul_(h, "result", "factor", digits).h ELSE h
      shifted == exponent \div 2
  IN IF shifted = 0 THEN h1
     ELSE powIntLoop(mul_(h1, "factor", "factor", digits).h, shifted, digits)

\* powInt returning 1 for every exponent up to 1
powInt_fromOne(base, exponent, digits) ==
  IF exponent <= 1 THEN D(1, 0)
  ELSE powIntLoop([result |-> D(1, 0), factor |-> base], exponent, digits)["result"]

powInt(base, exponent, digits) ==
  IF exponent <= 0 THEN D(1, 0)
  ELSE powIntLoop([result |-> D(1, 0), factor |-> base], exponent, digits)["result"]

\* powFrac for an exponent without fractional digits; the digit loop over
\* root$ (Newton's iteration at twelve or more guard digits, seeded by a
\* float) has no value here
powFrac(base, fractional, digits, digitsCount) ==
  IF isZero(fractional) \/ digitsCount <= 0 THEN D(1, 0)
  ELSE CHOOSE unmodelled \in {} : TRUE

\* pow$ past its two zero checks: base and exponent are nonzero; step by
\* step, the parts of expVal.abs().split$() (intPart in "e", fracPart in
\* "r2"), the scale of the fraction, the two factors pw, the object "m"
\* that holds their product, and the outcome o
pow_nonzero_(h, self, exponent, prec) ==
  LET Finished(o, outPrec) ==
        IF o.err # "" THEN o ELSE round_(o.h, self, DigitsInt(outPrec), outPrec = 0)
      Placed(r) == Ok(p_set_(r, self, r["m"].coeff, r["m"].digits))
      Product_(h1, workPrec, outPrec) ==
        Finished(IF isNegative(h[exponent])
                 THEN div_(p_set_(h1, self, 1, 0), self, "m", DigitsInt(workPrec), "round")
                 ELSE Placed(round_(h1, "m", DigitsInt(workPrec), TRUE).h),
                 outPrec)
      Factors(pw, fracScale, fracPrec) ==
        Product_(("m" :> (IF fracScale > 0
                          THEN mul_(pw, "result", "factor", DigitsInt(fracPrec)).h["result"]
                          ELSE pw["result"])) @@ h,
                 IF fracPrec > prec THEN fracPrec ELSE prec,
                 IF fracScale > 0 THEN fracPrec ELSE prec)
      Precise(intPart, fracPart, fracScale, fracPrec) ==
        Factors([result |-> powInt(h[self], intPart.coeff, DigitsUndef),
                 factor |-> powFrac(h[self], fracPart, fracPrec, fracScale)],
                fracScale, fracPrec)
      Fraction(intPart, fracPart, fracScale) ==
        IF isNegative(h[self]) /\ fracScale > 0
        THEN Throw(h, "Fractional exponent requires non-negative base")
        ELSE Precise(intPart, fracPart, fracScale,
                     IF fracScale > 0 THEN prec + max2(4, fracScale) ELSE prec)
      Parts(parts) ==
        Fraction(parts["e"], parts["r2"],
                 IF isZero(parts["r2"]) THEN 0 ELSE parts["r2"].digits)
  IN Parts(split_(("e" :> D(abs(h[exponent].coeff), h[exponent].digits)) @@ h,
                  "e", DigitsUndef, "floor").h)

\* pow$ testing the base for zero before the exponent
pow_baseFirst(h, self, exponent, digits) ==
  IF ensureIntegerThrows(digits) THEN Throw(h, "Digits must be an integer")
  ELSE IF isZero(h[self])
    THEN IF isNegative(h[exponent])
         THEN Throw(h, "Zero to negative exponent is undefined")
         ELSE Ok(h)
  ELSE IF isZero(h[exponent]) THEN Ok(p_set_(h, self, 1, 0))
  ELSE pow_nonzero_(h, self, exponent,
                    ensureDigits(OrDefault(digits, DEFAULT_DIVISION_PRECISION)))

pow_(h, self, exponent, digits) ==
  IF ensureIntegerThrows(digits) THEN Throw(h, "Digits must be an integer")
  ELSE IF isZero(h[exponent]) THEN Ok(p_set_(h, self, 1, 0))
  ELSE IF isZero(h[self])
    THEN IF isNegative(h[exponent])
         THEN Throw(h, "Zero to negative exponent is undefined")
         ELSE Ok(h)
  ELSE pow_nonzero_(h, self, exponent,
                    ensureDigits(OrDefault(digits, DEFAULT_DIVISION_PRECISION)))

\* exponents: the integers of -MaxExp..MaxExp written at scale 0 and, with a
\* trailing zero, at scale 1; tens at scale -1; and the small arguments,
\* fractional ones included
ExpValues ==
  {D(n, 0) : n \in (-MaxExp)..MaxExp}
    \cup {D(10 * n, 1) : n \in (-MaxExp)..MaxExp}
    \cup {D(n, -1) : n \in -1..1}
    \cup ArgValues
ExpChoices == {[alias |-> TRUE, val |-> D(0, 0)]}
                \cup {[alias |-> FALSE, val |-> a] : a \in ExpValues}

\* |c|^n, or a number above 10^6 once the power exceeds 10^6
RECURSIVE Magnitude(_, _)
Magnitude(c, n) ==
  IF n = 0 \/ abs(c) = 1 THEN 1
  ELSE IF n > 20 THEN 10 ^ 6 + 1
  ELSE LET p == Magnitude(c, n - 1) IN IF p > 10 ^ 6 THEN p ELSE p * abs(c)

\* the call stays within the integers of the model: it returns or throws
\* before powInt, or the exponent is an integer n and base^n at the
\* requested scale has at most nine figures
FitsPow(base, expVal, digits) ==
  \/ ensureIntegerThrows(digits) \/ isZero(expVal) \/ isZero(base)
  \/ LET prec == ensureDigits(OrDefault(digits, DEFAULT_DIVISION_PRECISION))
         whole == expVal.digits <= 0 \/ abs(expVal.coeff) % (10 ^ expVal.digits) = 0
         n == IF expVal.digits <= 0 THEN abs(expVal.coeff) * (10 ^ (-expVal.digits))
              ELSE abs(expVal.coeff) \div (10 ^ expVal.digits)
     IN IF ~whole THEN isNegative(base)
        ELSE /\ Magnitude(base.coeff, n) <= 10 ^ 6
             /\ Len(BigIntToString(Magnitude(base.coeff, n)))
                  + abs(IF isNegative(expVal) THEN prec + n * base.digits
                        ELSE prec - n * base.digits) <= 9

Pow(inplace, a, digits) ==
  /\ Idle
  /\ LET p == Decimal(heap, a)
         r == Receiver(p.h, inplace)
     IN /\ FitsPow(heap["x"], p.h[p.ref], digits)
        /\ Return("pow", inplace, p.ref, digits, "none", FALSE, p.h, r.ref,
                  pow_(r.h, r.ref, p.ref, digits), "none")

NextPow ==
  \/ \E c \in Coeffs, d \in Scales : Construct(c, d)
  \/ \E adopt \in BOOLEAN : Continue(adopt)
  \/ \E inplace \in BOOLEAN, a \in ExpChoices, digits \in DigitsArgs : Pow(inplace, a, digits)

SpecPow == Init /\ [][NextPow]_vars

(* ================= Decimal(x), minmax, min, max ======================== *)
\* argument lists of minmax have at most MaxList entries
MaxList == MaxTarget + 2

\* an entry is nullish (null or undefined), the caller's Decimal x, or a
\* {coeff, digits} payload: -1, 1 and 1 written as 1.0
Entries ==
  {[kind |-> k, val |-> D(0, 0)] : k \in {"null", "decimal"}}
    \cup {[kind |-> "payload", val |-> v] : v \in {D(-1, 0), D(1, 0), D(10, 1)}}
EntryLists == UNION {[1..n -> Entries] : n \in 0..MaxList}

\* the object made for the i-th entry when it is not a Decimal
EntryRef(i) == <<"v1", "v2", "v3", "v4", "v5", "v6">>[i]

lt(a, b) == cmp(a, b) < 0
gt(a, b) == cmp(a, b) > 0

\* the loop of minmax from entry i on; minValue and maxValue are objects of
\* the heap or "null"
RECURSIVE minmaxLoop(_, _, _, _, _)
minmaxLoop(h, values, i, minValue, maxValue) ==
  IF i > Len(values) THEN [h |-> h, min |-> minValue, max |-> maxValue]
  ELSE IF values[i].kind = "null"
    THEN minmaxLoop(h, values, i + 1, minValue, maxValue)
  ELSE LET candidate == DecimalAs(h, [alias |-> values[i].kind = "decimal",
                                      val |-> values[i].val], EntryRef(i))
           c == candidate.h[candidate.ref]
       IN minmaxLoop(candidate.h, values, i + 1,
                     IF minValue = "null" \/ lt(c, candidate.h[minValue])
                     THEN candidate.ref ELSE minValue,
                     IF maxValue = "null" \/ gt(c, candidate.h[maxValue])
                     THEN candidate.ref ELSE maxValue)

\* minmax handing back its pair in the other order
minmax_swapped(h, values) ==
  LET o == minmaxLoop(h, values, 1, "null", "null")
  IN [h |-> o.h, min |-> o.max, max |-> o.min]

minmax(h, values) == minmaxLoop(h, values, 1, "null", "null")

\* y = Decimal(x) for the caller's Decimal x
Wrap ==
  /\ Idle
  /\ LET y == Decimal(heap, [alias |-> TRUE, val |-> D(0, 0)])
     IN /\ pc' = "returned"
        /\ call' = [NoCall EXCEPT !.op = "Decimal", !.arg = "x"]
        /\ pre' = heap
        /\ heap' = y.h
        /\ err' = ""
        /\ ret' = [a |-> y.ref, b |-> "none"]

\* minmax(...values), min(...values) = minmax(...values)[0] and
\* max(...values) = minmax(...values)[1]
MinMax(fn, values) ==
  /\ Idle
  /\ LET o == minmax(heap, values)
     IN /\ pc' = "returned"
        /\ call' = [NoCall EXCEPT !.op = fn, !.arg = values]
        /\ pre' = heap
        /\ heap' = o.h
        /\ err' = ""
        /\ ret' = CASE fn = "minmax" -> [a |-> o.min, b |-> o.max]
                    [] fn = "min" -> [a |-> o.min, b |-> "none"]
                    [] fn = "max" -> [a |-> o.max, b |-> "none"]

\* the caller applies an in-place method to a Decimal it was handed
MutateReturned(handle, op) ==
  /\ pc = "returned"
  /\ handle \in {ret.a, ret.b} \ {"none", "null"}
  /\ LET o == CASE op = "neg" -> neg_(heap, handle)
                [] op = "shift10" -> shift10_(heap, handle, DigitsInt(1))
     IN /\ heap' = o.h
        /\ err' = o.err
  /\ pc' = "mutated"
  /\ call' = [call EXCEPT !.self = handle, !.mode = op]
  /\ UNCHANGED <<pre, ret>>

\* the caller drops the handles it was given and goes on with x
Release ==
  /\ pc \in {"returned", "mutated"}
  /\ heap' = ("x" :> heap["x"]) @@ Kept(heap)
  /\ pre' = heap'
  /\ pc' = "idle"
  /\ call' = NoCall
  /\ ret' = NoRet
  /\ err' = ""

NextHandles ==
  \/ Wrap
  \/ \E fn \in {"minmax", "min", "max"}, values \in EntryLists : MinMax(fn, values)
  \/ \E handle \in {"x"} \cup {EntryRef(i) : i \in 1..MaxList},
        op \in {"neg", "shift10"} : MutateReturned(handle, op)
  \/ Release

SpecHandles == Init /\ [][NextHandles]_vars

(* ===================== integers of any size ============================ *)
\* A bigint beyond the native range is held as a magnitude with a separate
\* sign, the magnitude as a sequence of limbs in base WideBase, lowest limb
\* first and without leading zero limbs (zero is the empty sequence).
WideBase == 10000

RECURSIVE WideOf(_)
WideOf(n) == IF n = 0 THEN <<>> ELSE <<n % WideBase>> \o WideOf(n \div WideBase)

RECURSIVE Narrow(_)
Narrow(w) == IF w = <<>> THEN 0 ELSE Head(w) + WideBase * Narrow(Tail(w))

\* w without its leading zero limbs
WideNorm(w) ==
  IF w = <<>> \/ w[Len(w)] # 0 THEN w
  ELSE LET set == {i \in 1..Len(w) : w[i] # 0}
       IN IF set = {} THEN <<>>
          ELSE SubSeq(w, 1, CHOOSE i \in set : \A j \in set : j <= i)

\* -1, 0 or 1
WideCmp(a, b) ==
  IF Len(a) # Len(b) THEN (IF Len(a) < Len(b) THEN -1 ELSE 1)
  ELSE LET differ == {i \in 1..Len(a) : a[i] # b[i]}
       IN IF differ = {} THEN 0
          ELSE LET top == CHOOSE i \in differ : \A j \in differ : j <= i
               IN IF a[top] < b[top] THEN -1 ELSE 1

\* The limbs of the number whose limbs before the carries are taken are
\* raw (each above -WideBase and below WideBase^2); the number is not
\* negative. The carries go from the lower half of a range into the upper.
WideCarry(raw) ==
  LET One(s) == [limbs |-> <<s % WideBase>>, carry |-> s \div WideBase]
      Join(lower, upper) == [limbs |-> lower.limbs \o upper.limbs, carry |-> upper.carry]
      RECURSIVE Range(_, _, _)
      RECURSIVE Upper(_, _, _)
      Range(lo, hi, carry) ==
        IF lo = hi THEN One(raw[lo] + carry)
        ELSE Upper(Range(lo, (lo + hi) \div 2, carry), (lo + hi) \div 2 + 1, hi)
      Upper(lower, lo, hi) == Join(lower, Range(lo, hi, lower.carry))
      Carried(o) == WideNorm(o.limbs \o WideOf(o.carry))
  IN IF raw = <<>> THEN <<>> ELSE Carried(Range(1, Len(raw), 0))

\* the limb i of a, 0 above its top
WideLimb(a, i) == IF i <= Len(a) THEN a[i] ELSE 0

WideAdd(a, b) == WideCarry([i \in 1..max2(Len(a), Len(b)) |-> WideLimb(a, i) + WideLimb(b, i)])

\* a - b for a >= b
WideSub(a, b) == WideCarry([i \in 1..Len(a) |-> a[i] - WideLimb(b, i)])

\* a times a limb m
WideMulSmall(a, m) == WideCarry([i \in 1..Len(a) |-> a[i] * m])

\* a times WideBase^k
WideShift(a, k) == IF a = <<>> THEN <<>> ELSE [i \in 1..k |-> 0] \o a

\* a times b, the limbs of b taken from the top: st.i limbs are left and
\* st.acc is a times the limbs taken so far
WideMul(a, b) ==
  LET RECURSIVE MulLoop(_)
      MulLoop(st) ==
        IF st.i = 0 THEN st.acc
        ELSE MulLoop([i |-> st.i - 1,
                      acc |-> WideAdd(WideMulSmall(a, b[st.i]), WideShift(st.acc, 1))])
  IN MulLoop([i |-> Len(b), acc |-> <<>>])

\* a times pow10n(k)
WideTimesPow10(a, k) == WideShift(WideMulSmall(a, 10 ^ (k % 4)), k \div 4)

\* The quotient of n by d > 0 by long division. Both are first multiplied
\* by the factor that brings the top limb of d to at least WideBase / 2, so
\* that the estimate of a limb of the quotient from the two top limbs of the
\* running remainder is at most two too large. The limbs of the multiplied
\* n, ns, are taken from the top: st.i limbs are left, st.r is the running
\* remainder and st.q the quotient so far. The remainder r belongs to the
\* multiplied pair and is given with the multiplied divisor d.
WideDivMod(n, d) ==
  LET Normalised(ns, dn) ==
        LET Top(cur) == (IF Len(cur) > Len(dn) THEN cur[Len(dn) + 1] * WideBase ELSE 0)
                          + (IF Len(cur) >= Len(dn) THEN cur[Len(dn)] ELSE 0)
            Capped(estimate) == IF estimate >= WideBase THEN WideBase - 1 ELSE estimate
            RECURSIVE QuotFrom(_, _)
            QuotFrom(cur, q) ==
              IF WideCmp(WideMulSmall(dn, q), cur) <= 0 THEN q ELSE QuotFrom(cur, q - 1)
            Take(st, cur, q) ==
              [i |-> st.i - 1, r |-> WideSub(cur, WideMulSmall(dn, q)),
               q |-> WideNorm(<<q>> \o st.q)]
            Limb(st, cur) == Take(st, cur, QuotFrom(cur, Capped(Top(cur) \div dn[Len(dn)])))
            RECURSIVE DivLoop(_)
            DivLoop(st) ==
              IF st.i = 0 THEN [q |-> st.q, r |-> st.r, d |-> dn]
              ELSE DivLoop(Limb(st, WideNorm(<<ns[st.i]>> \o st.r)))
        IN DivLoop([i |-> Len(ns), r |-> <<>>, q |-> <<>>])
  IN Normalised(WideMulSmall(n, WideBase \div (d[Len(d)] + 1)),
                WideMulSmall(d, WideBase \div (d[Len(d)] + 1)))

(* ------------- decimals whose coefficient is of any size --------------- *)
\* the coefficient is a sign and a magnitude; zero is never negative
WideDecimal(neg, mag, digits) == [neg |-> neg /\ mag # <<>>, mag |-> mag, digits |-> digits]
Widen(v) == WideDecimal(v.coeff < 0, WideOf(abs(v.coeff)), v.digits)
NarrowDecimal(w) == D(IF w.neg THEN -Narrow(w.mag) ELSE Narrow(w.mag), w.digits)
WIDE_ONE == WideDecimal(FALSE, WideOf(1), 0)

\* the sum of two signed coefficients, as a decimal of the given scale
wide_sum(aNeg, aMag, bNeg, bMag, digits) ==
  IF aNeg = bNeg THEN WideDecimal(aNeg, WideAdd(aMag, bMag), digits)
  ELSE IF WideCmp(aMag, bMag) >= 0 THEN WideDecimal(aNeg, WideSub(aMag, bMag), digits)
  ELSE WideDecimal(bNeg, WideSub(bMag, aMag), digits)

\* alignForOperation
wide_align(a, b) ==
  [digits |-> max2(a.digits, b.digits),
   aCoeff |-> WideTimesPow10(a.mag, max2(a.digits, b.digits) - a.digits),
   bCoeff |-> WideTimesPow10(b.mag, max2(a.digits, b.digits) - b.digits)]

\* cmp
wide_cmp(a, b) ==
  LET Signed(c) == IF a.neg THEN -c ELSE c
      Aligned(al) == Signed(WideCmp(al.aCoeff, al.bCoeff))
  IN IF a.neg # b.neg THEN (IF a.neg THEN -1 ELSE 1) ELSE Aligned(wide_align(a, b))

\* add$
wide_add(a, b) ==
  LET Aligned(al) == wide_sum(a.neg, al.aCoeff, b.neg, al.bCoeff, al.digits)
  IN Aligned(wide_align(a, b))

\* #div$ in mode 'round'
wide_p_div(a, divisor, targetDigits) ==
  LET shift == divisor.digits + targetDigits - a.digits
      \* (absRemainder * 2n >= threshold), both sides times the same factor
      Quotient(o) ==
        IF o.r # <<>> /\ WideCmp(WideMulSmall(o.r, 2), o.d) >= 0
        THEN wide_sum(a.neg # divisor.neg /\ o.q # <<>>, o.q, a.neg, WideOf(1), targetDigits)
        ELSE WideDecimal(a.neg # divisor.neg, o.q, targetDigits)
  IN IF shift >= 0
     THEN Quotient(WideDivMod(WideTimesPow10(a.mag, shift), divisor.mag))
     ELSE Quotient(WideDivMod(a.mag, WideTimesPow10(divisor.mag, -shift)))

\* div$ with its digits given, the divisor not zero
wide_div(a, v, digits) ==
  IF a.mag = <<>> THEN a ELSE wide_p_div(a, v, ensureDigits(digits))

\* round$ without force
wide_round(a, digits) ==
  IF a.digits <= digits THEN a
  ELSE IF a.mag = <<>> THEN [a EXCEPT !.digits = digits]
  ELSE wide_p_div(a, WIDE_ONE, digits)

\* mul$
wide_mul(a, v) == WideDecimal(a.neg # v.neg, WideMul(a.mag, v.mag), a.digits + v.digits)

(* ------------------------------- log ----------------------------------- *)
toBoundedNonNegativeNumber(value) == IF value < 0 THEN 0 ELSE value

\* Math.ceil(fracPrec * LOG_BINARY_PER_DECIMAL), log2(10) taken as
\* 3.32193: the same ceiling for every fracPrec below 643
ceilBinaryDigits(fracPrec) == (fracPrec * 332193 + 99999) \div 100000

\* Math.ceil(Math.log10(ops)) for ops >= 1
ceilLog10(ops) == CHOOSE k \in 0..9 : 10 ^ k >= ops /\ (k = 0 \/ 10 ^ (k - 1) < ops)

\* the settings, and the number of times the loop body ran
estimateLogGuardSettings(target, baseDigits, valueDigits) ==
  LET baseScale == toBoundedNonNegativeNumber(baseDigits)
      valueScale == toBoundedNonNegativeNumber(valueDigits)
      minGuard == max2(baseScale, valueScale) + 1
      RECURSIVE Loop(_, _)
      Loop(guardPrec, rounds) ==
        LET fracPrec == target + guardPrec
            bits == ceilBinaryDigits(fracPrec) + guardPrec
            ops == max2(bits * 2, 1)
            required == max2(minGuard, ceilLog10(ops) + 1)
        IN IF required <= guardPrec
           THEN [guardPrec |-> guardPrec, fracPrec |-> fracPrec, bits |-> bits,
                 divPrec |-> fracPrec + guardPrec, rounds |-> rounds]
           ELSE Loop(required, rounds + 1)
  IN Loop(max2(minGuard, 1), 1)

\* The first loop collects the squares base, base^2, base^4, ... that are
\* at most value, with their exponents; the second goes through them from
\* the largest down.
extractLogIntegerPositive(value, base, digits, guardPrec) ==
  LET divDigits == digits + max2(guardPrec, 1)
      RECURSIVE Squares(_)
      Squares(st) ==
        IF wide_cmp(st.power, value) > 0 THEN st
        ELSE Squares([power |-> wide_mul(st.power, st.power),
                      exponent |-> st.exponent * 2,
                      powers |-> Append(st.powers, st.power),
                      exponents |-> Append(st.exponents, st.exponent)])
      RECURSIVE Consume(_, _)
      Consume(table, st) ==
        IF st.i = 0 THEN [exponent |-> st.result, remainder |-> st.remainder]
        ELSE IF wide_cmp(st.remainder, table.powers[st.i]) >= 0
          THEN Consume(table,
                       [i |-> st.i - 1,
                        remainder |-> wide_div(st.remainder, table.powers[st.i], divDigits),
                        result |-> st.result + table.exponents[st.i]])
          ELSE Consume(table, [st EXCEPT !.i = st.i - 1])
      From(table) == Consume(table, [i |-> Len(table.powers), remainder |-> value, result |-> 0])
  IN From(Squares([power |-> base, exponent |-> 1, powers |-> <<>>, exponents |-> <<>>]))

extractLogIntegerAndNormalize(value, base, digits, guardPrec) ==
  LET divDigits == digits + max2(guardPrec, 1)
      Inverted(positive) ==
        IF wide_cmp(positive.remainder, WIDE_ONE) = 0
        THEN [exponent |-> -positive.exponent, remainder |-> WIDE_ONE]
        ELSE [exponent |-> -positive.exponent - 1,
              remainder |-> wide_mul(wide_div(WIDE_ONE, positive.remainder, divDigits), base)]
      Positive(c) ==
        IF c > 0 THEN extractLogIntegerPositive(value, base, digits, guardPrec)
        ELSE Inverted(extractLogIntegerPositive(wide_div(WIDE_ONE, value, divDigits),
                                                base, digits, guardPrec))
  IN IF wide_cmp(value, WIDE_ONE) = 0 THEN [exponent |-> 0, remainder |-> WIDE_ONE]
     ELSE Positive(wide_cmp(value, WIDE_ONE))

\* pow5n: 5^n from the square of 5^(n \div 2)
RECURSIVE wide_pow5n(_)
wide_pow5n(n) ==
  LET Squared(half) == WideMulSmall(WideMul(half, half), IF n % 2 = 1 THEN 5 ELSE 1)
  IN IF n = 0 THEN WideOf(1) ELSE Squared(wide_pow5n(n \div 2))

\* the body of the loop of log$ over the bits of the fraction
logBit(baseNorm, divPrec, st) ==
  LET Bit(squared) ==
        IF wide_cmp(squared, baseNorm) >= 0
        THEN [i |-> st.i + 1, remainder |-> wide_div(squared, baseNorm, divPrec),
              flags |-> WideAdd(WideMulSmall(st.flags, 2), WideOf(1))]
        ELSE [i |-> st.i + 1, remainder |-> squared, flags |-> WideMulSmall(st.flags, 2)]
  IN Bit(wide_round(wide_mul(st.remainder, st.remainder), divPrec))

\* the loop of log$ over the bits of the fraction, for n bits more from
\* the state st: the first half of them and then the rest
RECURSIVE logBits(_, _, _, _, _)
logBits(baseNorm, bits, divPrec, st, n) ==
  LET Rest(half) ==
        IF half.i = bits THEN half
        ELSE logBits(baseNorm, bits, divPrec, half, n - n \div 2)
  IN IF n = 0 THEN st
     ELSE IF n = 1 THEN logBit(baseNorm, divPrec, st)
     ELSE Rest(logBits(baseNorm, bits, divPrec, st, n \div 2))

\* the last rounding of log$ keeping the guard digits when precision is 0
logRound_guardKept(sum, precision, fracPrec) == wide_round(sum, fracPrec)

\* the last rounding of log$
logRound(sum, precision, fracPrec) ==
  LET finalPrec == IF precision = 0 THEN 0 ELSE fracPrec
  IN wide_round(sum, finalPrec)

\* log$ past its checks, step by step: the settings s, the base above one
\* baseNorm, the integer part and the remainder e, the state loop that the
\* loop over the bits ended in, and the sum rounded. The value is the one
\* the receiver is left with.
logValue(value, baseValue, precision) ==
  LET baseBelowOne == wide_cmp(baseValue, WIDE_ONE) < 0
      Finally(s, baseNorm, e, loop, rounded) ==
        [value |-> WideDecimal(baseBelowOne # rounded.neg, rounded.mag, rounded.digits),
         settings |-> s, baseNorm |-> baseNorm, exponent |-> e.exponent,
         remainder |-> e.remainder, loop |-> loop]
      Summed(s, baseNorm, e, loop) ==
        Finally(s, baseNorm, e, loop,
                logRound(IF loop.flags # <<>>
                         THEN wide_add(Widen(D(e.exponent, 0)),
                                       WideDecimal(FALSE,
                                                   WideMul(loop.flags, wide_pow5n(s.bits)),
                                                   s.bits))
                         ELSE Widen(D(e.exponent, 0)),
                         precision, s.fracPrec))
      Integer(s, baseNorm, e) ==
        Summed(s, baseNorm, e,
               IF s.fracPrec > 0
               THEN logBits(baseNorm, s.bits, s.divPrec,
                            [i |-> 0, remainder |-> e.remainder, flags |-> <<>>], s.bits)
               ELSE [i |-> 0, remainder |-> e.remainder, flags |-> <<>>])
      Based(s, baseNorm) ==
        Integer(s, baseNorm,
                extractLogIntegerAndNormalize(value, baseNorm, s.fracPrec, s.guardPrec))
      Settled(s) ==
        Based(s, IF baseBelowOne THEN wide_div(WIDE_ONE, baseValue, s.divPrec) ELSE baseValue)
  IN Settled(estimateLogGuardSettings(precision, baseValue.digits, value.digits))

log_(h, self, base, digits) ==
  LET precision == ensureDigits(OrDefault(digits, DEFAULT_DIVISION_PRECISION))
      Set(o) == Ok(p_set_(h, self, o.coeff, o.digits))
  IN IF ensureIntegerThrows(digits) THEN Throw(h, "Digits must be an integer")
     ELSE IF ~isPositive(h[self]) THEN Throw(h, "Logarithm argument must be positive")
     ELSE IF ~isPositive(h[base]) THEN Throw(h, "Logarithm base must be positive")
     ELSE IF cmp(h[base], h[DECIMAL_ONE]) = 0 THEN Throw(h, "Logarithm base cannot be one")
     ELSE Set(NarrowDecimal(logValue(Widen(h[self]), Widen(h[base]), precision).value))

\* bases: the receiver itself, the small arguments, 1/2, and 1 written as 1.0
LogBases == ArgValues \cup {D(5, 1), D(10, 1)}
LogChoices == {[alias |-> TRUE, val |-> D(0, 0)]}
                \cup {[alias |-> FALSE, val |-> a] : a \in LogBases}

\* the call stays within the integers of the heap: it throws before the
\* logarithm is computed, or its digits are given
FitsLog(value, digits) == digits.kind # "undef" \/ ~isPositive(value)

\* whole numbers one below a power of ten, past the bounds of the other
\* constructed values
NearPowers == {D(99999999, 0), D(999999999, 0)}

ConstructNearPower(v) ==
  /\ pc = "idle"
  /\ heap' = ("x" :> v) @@ Kept(heap)
  /\ pre' = heap'
  /\ UNCHANGED <<pc, call, ret, err>>

Log(inplace, a, digits) ==
  /\ pc = "idle"
  /\ InBounds(heap["x"]) \/ heap["x"] \in NearPowers
  /\ FitsLog(heap["x"], digits)
  /\ LET p == Decimal(heap, a)
         r == Receiver(p.h, inplace)
     IN Return("log", inplace, p.ref, digits, "none", FALSE, p.h, r.ref,
               log_(r.h, r.ref, p.ref, digits), "none")

NextLog ==
  \/ \E c \in Coeffs, d \in Scales : Construct(c, d)
  \/ \E v \in NearPowers : ConstructNearPower(v)
  \/ \E adopt \in BOOLEAN : Continue(adopt)
  \/ \E inplace \in BOOLEAN, a \in LogChoices, digits \in DigitsArgs : Log(inplace, a, digits)

SpecLog == Init /\ [][NextLog]_vars


(* --------------------- log, one loop round at a time ------------------- *)
\* The two loops of log$ without a fixed round count, the while (true) of
\* estimateLogGuardSettings and the while (power.le(value)) of
\* extractLogIntegerPositive, taken one round per step. The call's locals
\* are the frame of the call record.

\* one round of estimateLogGuardSettings whose guardPrec is never raised
guardRound_guardFixed(target, minGuard, guardPrec) ==
  LET fracPrec == target + guardPrec
      bits == ceilBinaryDigits(fracPrec) + guardPrec
      ops == max2(bits * 2, 1)
      required == max2(minGuard, ceilLog10(ops) + 1)
  IN [done |-> required <= guardPrec, guardPrec |-> guardPrec,
      fracPrec |-> fracPrec, bits |-> bits, divPrec |-> fracPrec + guardPrec]

\* one round of the loop of estimateLogGuardSettings: it returns the
\* settings (done) or goes on with guardPrec = required
guardRound(target, minGuard, guardPrec) ==
  LET fracPrec == target + guardPrec
      bits == ceilBinaryDigits(fracPrec) + guardPrec
      ops == max2(bits * 2, 1)
      required == max2(minGuard, ceilLog10(ops) + 1)
  IN [done |-> required <= guardPrec,
      guardPrec |-> IF required <= guardPrec THEN guardPrec ELSE required,
      fracPrec |-> fracPrec, bits |-> bits, divPrec |-> fracPrec + guardPrec]

\* what the squaring loop of extractLogIntegerPositive starts from, once the
\* settings s are known: the base above one, and the value itself or, for a
\* value below one, its reciprocal
squaresStart(value, baseValue, s) ==
  LET Started(baseNorm) ==
        [baseNorm |-> baseNorm,
         subject |-> IF wide_cmp(value, WIDE_ONE) >= 0 THEN value
                     ELSE wide_div(WIDE_ONE, value, s.fracPrec + max2(s.guardPrec, 1)),
         power |-> baseNorm, exponent |-> 1, count |-> 0]
  IN Started(IF wide_cmp(baseValue, WIDE_ONE) < 0
             THEN wide_div(WIDE_ONE, baseValue, s.divPrec) ELSE baseValue)

\* log$ up to the loop of estimateLogGuardSettings, on valid input
EnterLog(inplace, a, digits) ==
  /\ pc = "idle"
  /\ InBounds(heap["x"]) \/ heap["x"] \in NearPowers
  /\ digits.kind = "int"
  /\ LET p == Decimal(heap, a)
         r == Receiver(p.h, inplace)
         minGuard == max2(toBoundedNonNegativeNumber(p.h[p.ref].digits),
                          toBoundedNonNegativeNumber(heap["x"].digits)) + 1
     IN /\ isPositive(heap["x"]) /\ isPositive(p.h[p.ref])
        /\ cmp(p.h[p.ref], D(1, 0)) # 0
        /\ call' = [op |-> "log", inplace |-> inplace, self |-> r.ref, arg |-> p.ref,
                    digits |-> digits, mode |-> "none", force |-> FALSE,
                    frame |-> [target |-> ensureDigits(digits.val), minGuard |-> minGuard,
                               guardPrec |-> max2(minGuard, 1), rounds |-> 0]]
        /\ pre' = p.h
        /\ heap' = r.h
  /\ pc' = "guard"
  /\ UNCHANGED <<ret, err>>

\* one round of the loop of estimateLogGuardSettings
GuardRound ==
  /\ pc = "guard"
  /\ LET f == call.frame
         g == guardRound(f.target, f.minGuard, f.guardPrec)
     IN IF g.done
        THEN /\ pc' = "settled"
             /\ call' = [call EXCEPT !.frame =
                           [target |-> f.target, rounds |-> f.rounds + 1, settings |-> g]]
        ELSE /\ pc' = "guard"
             /\ call' = [call EXCEPT !.frame.guardPrec = g.guardPrec,
                                     !.frame.rounds = f.rounds + 1]
  /\ UNCHANGED <<heap, pre, ret, err>>

\* log$ from the settings to the squaring loop, which a value of one skips
StartSquares ==
  /\ pc = "settled"
  /\ pc' = IF cmp(pre["x"], D(1, 0)) = 0 THEN "rest" ELSE "squares"
  /\ call' = [call EXCEPT !.frame =
                call.frame @@ squaresStart(Widen(pre["x"]), Widen(pre[call.arg]),
                                           call.frame.settings)]
  /\ UNCHANGED <<heap, pre, ret, err>>

\* one round of the squaring loop of extractLogIntegerPositive
SquareRound ==
  /\ pc = "squares"
  /\ LET f == call.frame
     IN IF wide_cmp(f.power, f.subject) <= 0
        THEN /\ pc' = "squares"
             /\ call' = [call EXCEPT !.frame.power = wide_mul(f.power, f.power),
                                     !.frame.exponent = f.exponent * 2,
                                     !.frame.count = f.count + 1]
        ELSE /\ pc' = "rest"
             /\ UNCHANGED call
  /\ UNCHANGED <<heap, pre, ret, err>>

\* the rest of log$: its loops run a number of rounds fixed beforehand
FinishLog ==
  /\ pc = "rest"
  /\ Return("log", call.inplace, call.arg, call.digits, "none", FALSE, pre, call.self,
            log_(heap, call.self, call.arg, call.digits), "none")

NextLogRounds ==
  \/ \E c \in Coeffs, d \in Scales : Construct(c, d)
  \/ \E v \in NearPowers : ConstructNearPower(v)
  \/ \E adopt \in BOOLEAN : Continue(adopt)
  \/ \E inplace \in BOOLEAN, a \in LogChoices, digits \in IntDigits : EnterLog(inplace, a, digits)
  \/ GuardRound
  \/ StartSquares
  \/ SquareRound
  \/ FinishLog

\* A call that has started runs on: the program is sequential. A step of
\* the call is possible exactly where pc says so, and it always changes pc
\* or the frame, so weak fairness of the steps after GuardRound is written
\* with pc in the place of ENABLED.
SpecLogRounds ==
  /\ Init /\ [][NextLogRounds]_vars
  /\ WF_vars(GuardRound)
  /\ []<>(pc # "settled") \/ []<><<StartSquares>>_vars
  /\ []<>(pc # "squares") \/ []<><<SquareRound>>_vars
  /\ []<>(pc # "rest") \/ []<><<FinishLog>>_vars


(* ------------------------------- root ---------------------------------- *)
\* the scale of the values too small for a float, and the largest digits
\* and degree a root is asked with
TinyScale == 330
MaxRootDigits == 13
MaxDegree == 3

\* #rescale$ in mode 'round', as round$ with force calls it
wide_rescale(a, digits) ==
  IF a.mag = <<>> THEN [a EXCEPT !.digits = digits]
  ELSE IF digits = a.digits THEN a
  ELSE IF digits > a.digits
    THEN WideDecimal(a.neg, WideTimesPow10(a.mag, digits - a.digits), digits)
  ELSE wide_p_div(a, WIDE_ONE, digits)

\* powInt: square and multiply
wide_powInt(base, exponentInput, digits) ==
  LET Times(a, b) == wide_round(wide_mul(a, b), digits)
      RECURSIVE Loop(_)
      RECURSIVE Shifted(_, _)
      Loop(st) ==
        Shifted(st, IF st.exponent % 2 = 1 THEN Times(st.result, st.factor) ELSE st.result)
      Shifted(st, result) ==
        IF st.exponent \div 2 = 0 THEN result
        ELSE Loop([exponent |-> st.exponent \div 2, result |-> result,
                   factor |-> Times(st.factor, st.factor)])
  IN IF exponentInput <= 0 THEN WIDE_ONE
     ELSE Loop([exponent |-> exponentInput, result |-> WIDE_ONE, factor |-> base])

\* isCloseTo
wide_isCloseTo(a, v, tolerance) ==
  LET Within(difference) ==
        wide_cmp(WideDecimal(FALSE, difference.mag, difference.digits), tolerance) <= 0
  IN Within(wide_add(a, WideDecimal(~v.neg, v.mag, v.digits)))

\* order, of a value that is not zero
wide_order(a) ==
  4 * (Len(a.mag) - 1) + Len(BigIntToString(a.mag[Len(a.mag)])) - 1 - a.digits

\* magnitude.number() of a positive value is 0 or Infinity: the value is
\* below the smallest float or above the largest one
OutsideFloat(a) == a.mag # <<>> /\ (wide_order(a) <= -325 \/ wide_order(a) >= 309)

estimateRootIterSettings(target, degree) ==
  LET degreeDigits == max2(1, Len(BigIntToString(abs(degree))))
      extra == max2(12, degreeDigits + 4)
  IN [iterPrec |-> target + extra, stopShift |-> target + 2]

\* the initial value of root$ where the float of the magnitude is no guess
rootInitial(magnitude, degree, iterPrec) ==
  wide_rescale(WideDecimal(FALSE, WideOf(1), -BigIntDiv(wide_order(magnitude), degree)),
               iterPrec)

\* one round of the loop of root$; `exit` tells whether the loop goes on
rootRound(magnitude, degree, iterPrec, tolerance, st) ==
  LET Set(next) ==
        [i |-> st.i + 1, x |-> next,
         exit |-> IF wide_isCloseTo(next, st.x, tolerance) \/ wide_cmp(next, st.x) = 0
                  THEN "close" ELSE "rounds"]
      Averaged(term) ==
        Set(wide_div(wide_add(wide_round(wide_mul(st.x, Widen(D(degree - 1, 0))), iterPrec),
                              term),
                     Widen(D(degree, 0)), iterPrec))
      Term(power) ==
        IF power.mag = <<>> THEN [st EXCEPT !.exit = "zero power"]
        ELSE Averaged(wide_div(magnitude, power, iterPrec))
  IN Term(wide_powInt(st.x, degree - 1, iterPrec))

\* the loop of root$ for at most n rounds more, the first half of them and
\* then the rest
RECURSIVE rootLoop(_, _, _, _, _, _)
rootLoop(magnitude, degree, iterPrec, tolerance, st, n) ==
  LET Rest(half) ==
        IF half.exit # "rounds" THEN half
        ELSE rootLoop(magnitude, degree, iterPrec, tolerance, half, n - n \div 2)
  IN IF n = 1 THEN rootRound(magnitude, degree, iterPrec, tolerance, st)
     ELSE Rest(rootLoop(magnitude, degree, iterPrec, tolerance, st, n \div 2))

\* root$ past its checks, of a value that is not zero: the value left in the
\* receiver, the initial value, and the state the loop ended in
rootValue(value, degree, prec) ==
  LET magnitude == WideDecimal(FALSE, value.mag, value.digits)
      s == estimateRootIterSettings(prec, degree)
      Finally(initial, loop, rounded) ==
        [value |-> WideDecimal(value.neg, rounded.mag, rounded.digits),
         initial |-> initial, loop |-> loop]
      Iterated(initial, loop, iterated) ==
        Finally(initial, loop,
                IF prec = 0 THEN wide_rescale(iterated, prec) ELSE wide_round(iterated, prec))
      Looped(initial, loop) == Iterated(initial, loop, wide_rescale(loop.x, s.iterPrec))
      Started(initial) ==
        Looped(initial,
               rootLoop(magnitude, degree, s.iterPrec,
                        WideDecimal(FALSE, WideOf(1), s.stopShift),
                        [i |-> 0, x |-> IF initial.mag = <<>> THEN WIDE_ONE ELSE initial,
                         exit |-> "rounds"],
                        64))
  IN Started(rootInitial(magnitude, degree, s.iterPrec))

root_(h, self, degreeInput, digits) ==
  LET prec == ensureDigits(OrDefault(digits, DEFAULT_DIVISION_PRECISION))
      Set(o) == Ok(p_set_(h, self, o.coeff, o.digits))
  IN IF degreeInput.kind = "frac" THEN Throw(h, "Root degree must be an integer")
     ELSE IF degreeInput.val <= 0 THEN Throw(h, "Invalid root degree")
     ELSE IF ensureIntegerThrows(digits) THEN Throw(h, "Digits must be an integer")
     ELSE IF degreeInput.val = 1
       THEN (IF prec < h[self].digits THEN Ok(h) ELSE trunc_(h, self, DigitsInt(prec), TRUE))
     ELSE IF isZero(h[self]) THEN Ok(h)
     ELSE IF isNegative(h[self]) /\ degreeInput.val % 2 = 0
       THEN Throw(h, "Even root of negative value is not defined")
     ELSE Set(NarrowDecimal(rootValue(Widen(h[self]), degreeInput.val, prec).value))

\* the caller's values: the small ones, and values below the smallest float
TinyValues == {D(c, TinyScale) : c \in ((-MaxArg)..MaxArg) \ {0}}
RootDegrees == {DigitsFrac} \cup {DigitsInt(n) : n \in (-1)..MaxDegree}
RootDigits == DigitsArgs \cup {DigitsInt(MaxRootDigits)}

\* the call stays within what the model computes: it returns or throws
\* before the initial value is made, without a coefficient beyond the
\* integers of the heap, or the float of the value is no guess and the
\* digits are given
FitsRoot(value, degree, digits) ==
  \/ degree.kind = "frac" \/ degree.val <= 0 \/ ensureIntegerThrows(digits)
  \/ LET prec == ensureDigits(OrDefault(digits, DEFAULT_DIVISION_PRECISION))
     IN IF degree.val = 1 THEN prec < value.digits \/ prec <= MaxTarget
        ELSE \/ isZero(value)
             \/ isNegative(value) /\ degree.val % 2 = 0
             \/ digits.kind # "undef" /\ OutsideFloat(Widen(value))

ConstructTiny(v) ==
  /\ pc = "idle"
  /\ heap' = ("x" :> v) @@ Kept(heap)
  /\ pre' = heap'
  /\ UNCHANGED <<pc, call, ret, err>>

Root(inplace, degree, digits) ==
  /\ pc = "idle"
  /\ InBounds(heap["x"]) \/ heap["x"] \in TinyValues
  /\ FitsRoot(heap["x"], degree, digits)
  /\ LET r == Receiver(heap, inplace)
     IN Return("root", inplace, degree, digits, "none", FALSE, heap, r.ref,
               root_(r.h, r.ref, degree, digits), "none")

NextRoot ==
  \/ \E c \in Coeffs, d \in Scales : Construct(c, d)
  \/ \E v \in TinyValues : ConstructTiny(v)
  \/ \E adopt \in BOOLEAN : Continue(adopt)
  \/ \E inplace \in BOOLEAN, degree \in RootDegrees, digits \in RootDigits :
       Root(inplace, degree, digits)

SpecRoot == Init /\ [][NextRoot]_vars

(* ============================ BinaryReader ============================= *)
\* An ArrayBuffer is the sequence of its bytes, the byte at offset i being
\* element i + 1. A DataView is a window of one: buffer, byteOffset and
\* byteLength. JavaScript values carry their type as kind.
MaxOffset == 7

min2(a, b) == IF a < b THEN a ELSE b
Undefined == [kind |-> "undefined", val |-> 0]
Number_(n) == [kind |-> "number", val |-> n]
String_(s) == [kind |-> "string", val |-> s]
Bytes_(b) == [kind |-> "bytes", val |-> b]
This == [kind |-> "this", val |-> 0]
True == [kind |-> "true", val |-> 0]
False == [kind |-> "false", val |-> 0]
\* a ?? b
orElse(a, b) == IF a.kind = "undefined" THEN b ELSE a

\* ArrayBuffer.prototype.slice(begin, end): an index below zero counts from
\* the end, and both are held within the buffer
ArrayBuffer_slice(buffer, begin, end) ==
  LET len == Len(buffer)
      Relative(k) == IF k < 0 THEN max2(len + k, 0) ELSE min2(k, len)
  IN SubSeq(buffer, Relative(begin) + 1, Relative(end))

\* DataView.prototype.getUint8 and the wider getters: the bytes at pos, or
\* a RangeError when they are not all within the view
DataView_inRange(view, pos, width) == pos >= 0 /\ pos + width <= view.byteLength
DataView_byte(view, i) == view.buffer[view.byteOffset + i + 1]
RECURSIVE DataView_getUint(_, _, _, _)
DataView_getUint(view, pos, width, littleEndian) ==
  IF width = 0 THEN 0
  ELSE IF littleEndian
    THEN DataView_byte(view, pos) + 256 * DataView_getUint(view, pos + 1, width - 1, TRUE)
    ELSE DataView_byte(view, pos + width - 1)
           + 256 * DataView_getUint(view, pos, width - 1, FALSE)

\* this.#bookmarks[s] of the plain object {}: its own property, or what it
\* inherits from Object.prototype, or undefined
Inherited == {"constructor"}
bookmarkOf(bookmarks, s) ==
  IF s \in DOMAIN bookmarks THEN Number_(bookmarks[s])
  ELSE IF s \in Inherited THEN [kind |-> "function", val |-> 0]
  ELSE Undefined

\* new BinaryReader(u8, opts)
BinaryReader(u8, littleEndian) ==
  [view |-> [buffer |-> u8.buffer,
             byteOffset |-> IF u8.isView THEN u8.byteOffset ELSE 0,
             byteLength |-> IF u8.isView THEN u8.byteLength ELSE Len(u8.buffer)],
   pos |-> 0, littleEndian |-> littleEndian, bookmarks |-> <<>>]

reader_position(r) == r.pos
reader_size(r) == r.view.byteLength
reader_remain(r) == reader_size(r) - reader_position(r)
reader_eof(r) == reader_remain(r) <= 0

\* what a method leaves: the reader, the error thrown if any, the value
\* returned
Done(r, value) == [r |-> r, err |-> "", ret |-> value]
Fail(r, msg) == [r |-> r, err |-> msg, ret |-> Undefined]

\* seek taking the position as it is given
reader_seek_unclamped(r, n) ==
  LET Resolved(m) ==
        IF n.kind = "string" /\ m.kind = "undefined" THEN Fail(r, "seek: no such bookmark")
        ELSE IF m.kind = "number" THEN Done([r EXCEPT !.pos = m.val], This)
        ELSE Done(r, This)
  IN Resolved(IF n.kind = "string" THEN bookmarkOf(r.bookmarks, n.val) ELSE n)

reader_seek(r, n) ==
  LET Resolved(m) ==
        IF n.kind = "string" /\ m.kind = "undefined" THEN Fail(r, "seek: no such bookmark")
        ELSE IF m.kind = "number"
          THEN Done([r EXCEPT !.pos = min2(max2(m.val, 0), reader_size(r))], This)
        ELSE Done(r, This)
  IN Resolved(IF n.kind = "string" THEN bookmarkOf(r.bookmarks, n.val) ELSE n)

reader_bookmark(r, s) == Done([r EXCEPT !.bookmarks = (s :> r.pos) @@ r.bookmarks], This)

reader_rewind(r) == reader_seek(r, Number_(0))

reader_skip(r, n) ==
  reader_seek(r, Number_(r.pos + (IF n.kind = "undefined" THEN 1 ELSE n.val)))

reader_align(r, n) ==
  IF ~(n > 0) THEN Fail(r, "RangeError: align(n): n must be > 0")
  ELSE IF reader_position(r) % n # 0
    THEN reader_skip(r, Number_(n - (reader_position(r) % n)))
  ELSE Done(r, This)

reader_peekBytes(r, n) ==
  LET count == IF n.kind = "undefined" THEN reader_remain(r) ELSE n.val
      pos == r.view.byteOffset + reader_position(r)
  IN Done(r, Bytes_(ArrayBuffer_slice(r.view.buffer, pos, pos + count)))

reader_readBytes(r, n) ==
  LET buffer == reader_peekBytes(r, n).ret
  IN [reader_skip(r, Number_(Len(buffer.val))) EXCEPT !.ret = buffer]

\* readUint8, readUint16, readUint32: the getter of the view, then skip
reader_readUint(r, width, littleEndian) ==
  IF ~DataView_inRange(r.view, reader_position(r), width)
  THEN Fail(r, "RangeError: Offset is outside the bounds of the DataView")
  ELSE [reader_skip(r, Number_(width)) EXCEPT
          !.ret = Number_(DataView_getUint(r.view, reader_position(r), width,
                                           orElse(littleEndian, r.littleEndian).kind
                                             = "true"))]

reader_readInt8(r) ==
  LET Signed(o) ==
        IF o.err # "" \/ o.ret.val < 128 THEN o ELSE [o EXCEPT !.ret = Number_(o.ret.val - 256)]
  IN Signed(reader_readUint(r, 1, Undefined))

\* #strlen: the offset of the first zero byte from the cursor
reader_strlen(r) ==
  LET zeros == {i \in 0..(reader_remain(r) - 1) :
                  DataView_byte(r.view, reader_position(r) + i) = 0}
  IN IF zeros = {} THEN Undefined
     ELSE Number_(CHOOSE i \in zeros : \A j \in zeros : i <= j)

\* new TextDecoder('utf-8', {fatal: true}).decode(buffer) for the bytes the
\* inputs hold: below 0x80 a character each, 0xFF never part of a text
utf8Decodes(bytes) == \A i \in 1..Len(bytes) : bytes[i] < 128

\* readString(len) with the default encoding
reader_readString(r, len) ==
  LET remain == reader_remain(r)
      cstring == len.kind = "undefined"
      Read(n) ==
        IF n.kind = "undefined" \/ remain < n.val THEN Done(r, Undefined)
        ELSE LET buffer == reader_peekBytes(r, n).ret.val
             IN IF utf8Decodes(buffer)
                THEN [reader_skip(r, Number_(n.val + (IF cstring THEN 1 ELSE 0)))
                        EXCEPT !.ret = String_(buffer)]
                ELSE Done(r, Undefined)
  IN Read(IF cstring THEN reader_strlen(r) ELSE len)

(* --------------------------- the reader's caller ----------------------- *)
\* the inputs: whole ArrayBuffers, and typed arrays and DataViews over a
\* part of one
ReaderBuffers == {<<99, 1, 2, 0, 4, 100>>, <<65, 255, 0>>}
BinaryLikes ==
  {[isView |-> FALSE, buffer |-> b, byteOffset |-> 0, byteLength |-> Len(b)] :
     b \in ReaderBuffers}
  \cup {[isView |-> TRUE, buffer |-> <<99, 1, 2, 0, 4, 100>>,
         byteOffset |-> w[1], byteLength |-> w[2]] :
          w \in {<<1, 4>>, <<0, 3>>, <<2, 4>>, <<3, 0>>}}
ReaderOffsets == (-2)..MaxOffset
SeekNames == {"a", "constructor", "nope"}
OptionalOffsets == {Undefined} \cup {Number_(n) : n \in ReaderOffsets}
Endians == {Undefined, True, False}

InitReader ==
  /\ heap \in {("br" :> BinaryReader(u8, Undefined)) : u8 \in BinaryLikes}
  /\ pc = "idle"
  /\ call = [op |-> "none", arg |-> Undefined]
  /\ pre = heap
  /\ ret = Undefined
  /\ err = ""

ConstructReader(u8, littleEndian) ==
  /\ pc = "idle"
  /\ heap' = ("br" :> BinaryReader(u8, littleEndian))
  /\ pre' = heap'
  /\ UNCHANGED <<pc, call, ret, err>>

ReaderReturn(op, arg, o) ==
  /\ pc = "idle"
  /\ pc' = "returned"
  /\ call' = [op |-> op, arg |-> arg]
  /\ pre' = heap
  /\ heap' = ("br" :> o.r)
  /\ err' = o.err
  /\ ret' = o.ret

\* the caller goes on with its reader, whether the call returned or threw
ReaderContinue ==
  /\ pc = "returned"
  /\ pc' = "idle"
  /\ call' = [op |-> "none", arg |-> Undefined]
  /\ pre' = heap
  /\ ret' = Undefined
  /\ err' = ""
  /\ UNCHANGED heap

ReaderSeek(n) == ReaderReturn("seek", n, reader_seek(heap["br"], n))
ReaderBookmark(s) == ReaderReturn("bookmark", String_(s), reader_bookmark(heap["br"], s))
ReaderRewind == ReaderReturn("rewind", Undefined, reader_rewind(heap["br"]))
ReaderSkip(n) == ReaderReturn("skip", n, reader_skip(heap["br"], n))
ReaderAlign(n) == ReaderReturn("align", Number_(n), reader_align(heap["br"], n))
PeekBytes(n) == ReaderReturn("peekBytes", n, reader_peekBytes(heap["br"], n))
ReadBytes(n) == ReaderReturn("readBytes", n, reader_readBytes(heap["br"], n))
ReadUint8 == ReaderReturn("readUint8", Number_(1), reader_readUint(heap["br"], 1, Undefined))
ReadUint16(littleEndian) ==
  ReaderReturn("readUint16", Number_(2), reader_readUint(heap["br"], 2, littleEndian))
ReadUint32(littleEndian) ==
  ReaderReturn("readUint32", Number_(4), reader_readUint(heap["br"], 4, littleEndian))
ReadInt8 == ReaderReturn("readInt8", Number_(1), reader_readInt8(heap["br"]))
ReadString(len) == ReaderReturn("readString", len, reader_readString(heap["br"], len))

NextReader ==
  \/ \E u8 \in BinaryLikes, littleEndian \in {Undefined, True} : ConstructReader(u8, littleEndian)
  \/ ReaderContinue
  \/ \E n \in ReaderOffsets : ReaderSeek(Number_(n))
  \/ \E s \in SeekNames : ReaderSeek(String_(s))
  \/ ReaderBookmark("a")
  \/ ReaderRewind
  \/ \E n \in OptionalOffsets : ReaderSkip(n)
  \/ \E n \in ReaderOffsets : ReaderAlign(n)
  \/ \E n \in OptionalOffsets : PeekBytes(n)
  \/ \E n \in OptionalOffsets : ReadBytes(n)
  \/ ReadUint8
  \/ \E littleEndian \in Endians : ReadUint16(littleEndian)
  \/ \E littleEndian \in Endians : ReadUint32(littleEndian)
  \/ ReadInt8
  \/ \E len \in OptionalOffsets : ReadString(len)

SpecReader == InitReader /\ [][NextReader]_vars


(* ============================ BinaryWriter ============================= *)
\* The bytes of an ArrayBuffer made with new ArrayBuffer(n) or new
\* Uint8Array(n) are its length and, by offset, the bytes that are not
\* zero. A number is Number_(n) or NaN.
pageSize == 1024
MaxCalls == 3

NaN == [kind |-> "NaN", val |-> 0]

\* ToNumber of a number or of a function
ToNumber(v) == IF v.kind = "number" THEN v ELSE NaN
\* a + b, a - b, Math.max(a, b), Math.min(a, b), a > b, a % b of numbers
js_add(a, b) == IF a.kind = "NaN" \/ b.kind = "NaN" THEN NaN ELSE Number_(a.val + b.val)
js_sub(a, b) == IF a.kind = "NaN" \/ b.kind = "NaN" THEN NaN ELSE Number_(a.val - b.val)
Math_max(a, b) == IF a.kind = "NaN" \/ b.kind = "NaN" THEN NaN ELSE Number_(max2(a.val, b.val))
Math_min(a, b) == IF a.kind = "NaN" \/ b.kind = "NaN" THEN NaN ELSE Number_(min2(a.val, b.val))
js_gt(a, b) == a.kind = "number" /\ b.kind = "number" /\ a.val > b.val
\* the remainder has the sign of the dividend; the divisor is above zero
js_mod(a, n) ==
  IF a.kind = "NaN" THEN NaN
  ELSE Number_(IF a.val >= 0 THEN a.val % n ELSE -((-a.val) % n))
\* ToIndex of a position that is NaN or a whole number
ToIndex(a) == IF a.kind = "NaN" THEN 0 ELSE a.val

ZeroBytes(n) == [byteLength |-> n, bytes |-> <<>>]
ByteAt(buffer, i) == IF i \in DOMAIN buffer.bytes THEN buffer.bytes[i] ELSE 0
\* the buffer with the bytes of the sequence s from offset at on
SetBytes(buffer, at, s) ==
  LET written == {at + k - 1 : k \in 1..Len(s)}
      Byte(i) == IF i \in written THEN s[i - at + 1] % 256 ELSE buffer.bytes[i]
      kept == {i \in DOMAIN buffer.bytes \cup written : Byte(i) # 0}
  IN [buffer EXCEPT !.bytes = [i \in kept |-> Byte(i)]]
\* length bytes of the buffer from offset from on, as a buffer of their own
BytesFrom(buffer, from, length) ==
  LET kept == {i \in 0..(length - 1) : (from + i) \in DOMAIN buffer.bytes}
  IN [byteLength |-> length, bytes |-> [i \in kept |-> buffer.bytes[from + i]]]

\* new BinaryWriter(u8, opts) for u8 left out or a number
BinaryWriter(u8, littleEndian) ==
  LET length == IF u8.kind = "undefined" THEN pageSize ELSE u8.val
  IN [view |-> [buffer |-> ZeroBytes(length), byteOffset |-> 0, byteLength |-> length],
      pos |-> Number_(0), littleEndian |-> littleEndian, bookmarks |-> <<>>,
      size |-> IF u8.kind = "undefined" THEN 0 ELSE length,
      resizable |-> u8.kind = "undefined"]

writer_position(w) == w.pos
writer_capacity(w) == w.view.byteLength
writer_size(w) == w.size
writer_remain(w) == Math_max(Number_(0), js_sub(Number_(writer_capacity(w)), writer_position(w)))

\* #require growing the view without the bytes it held
writer_require_bytesDropped(w, n) ==
  IF js_gt(n, writer_remain(w))
  THEN IF ~w.resizable THEN Fail(w, "Out of buffer size")
       ELSE LET length == ((w.pos.val + n.val + pageSize - 1) \div pageSize) * pageSize
            IN Done([w EXCEPT !.view = [buffer |-> ZeroBytes(length), byteOffset |-> 0,
                                        byteLength |-> length]], This)
  ELSE Done(w, This)

\* #require(n): a view of whole pages that holds n bytes from the cursor
\* on, with the bytes of the view so far
writer_require(w, n) ==
  IF js_gt(n, writer_remain(w))
  THEN IF ~w.resizable THEN Fail(w, "Out of buffer size")
       ELSE LET length == ((w.pos.val + n.val + pageSize - 1) \div pageSize) * pageSize
                held == BytesFrom(w.view.buffer, w.view.byteOffset, w.view.byteLength)
            IN Done([w EXCEPT !.view = [buffer |-> [held EXCEPT !.byteLength = length],
                                        byteOffset |-> 0, byteLength |-> length]], This)
  ELSE Done(w, This)

\* seek from the position it has taken on
writer_moved(w) ==
  LET Sized(o) ==
        IF o.err # "" THEN o
        ELSE IF js_gt(o.r.pos, Number_(o.r.size)) THEN Done([o.r EXCEPT !.size = o.r.pos.val], This)
        ELSE Done(o.r, This)
  IN Sized(IF w.resizable
           THEN writer_require(w, js_sub(w.pos, Number_(writer_capacity(w))))
           ELSE Done([w EXCEPT !.pos = Math_min(w.pos, Number_(writer_capacity(w)))], This))

writer_seek(w, n) ==
  LET m == IF n.kind # "string" THEN n
           ELSE IF n.val \in DOMAIN w.bookmarks THEN w.bookmarks[n.val]
           ELSE IF n.val \in Inherited THEN [kind |-> "function", val |-> 0]
           ELSE Undefined
  IN IF n.kind = "string" /\ m.kind = "undefined" THEN Fail(w, "seek: no such bookmark")
     ELSE writer_moved([w EXCEPT !.pos = Math_max(ToNumber(m), Number_(0))])

writer_bookmark(w, s) == Done([w EXCEPT !.bookmarks = (s :> w.pos) @@ w.bookmarks], This)

writer_rewind(w) == writer_seek(w, Number_(0))

writer_advance(w, n) == writer_seek(w, js_add(w.pos, n))

writer_align(w, n) ==
  IF ~(n > 0) THEN Fail(w, "RangeError: align(n): n must be > 0")
  ELSE IF js_mod(writer_position(w), n).kind = "number" /\ js_mod(writer_position(w), n).val # 0
    THEN writer_advance(w, js_sub(Number_(n), js_mod(writer_position(w), n)))
  ELSE Done(w, This)

\* get buffer: slice(byteOffset, byteOffset + size), both within the buffer
writer_buffer(w) ==
  LET first == min2(w.view.byteOffset, w.view.buffer.byteLength)
      final == min2(w.view.byteOffset + w.size, w.view.buffer.byteLength)
  IN BytesFrom(w.view.buffer, first, max2(final - first, 0))

\* the bytes of a whole number of the given width
RECURSIVE BytesOf(_, _, _)
BytesOf(value, width, littleEndian) ==
  IF width = 0 THEN <<>>
  ELSE IF littleEndian THEN <<value % 256>> \o BytesOf(value \div 256, width - 1, TRUE)
  ELSE BytesOf(value \div 256, width - 1, FALSE) \o <<value % 256>>

\* the bytes s put at the cursor: #require, the store into the view, which
\* throws a RangeError past its end, and advance
writer_put(w, s) ==
  LET Stored(o) ==
        IF o.err # "" THEN o
        ELSE IF ToIndex(o.r.pos) + Len(s) > o.r.view.byteLength
          THEN Fail(o.r, "RangeError: Offset is outside the bounds of the DataView")
        ELSE writer_advance([o.r EXCEPT !.view.buffer =
                               SetBytes(o.r.view.buffer,
                                        o.r.view.byteOffset + ToIndex(o.r.pos), s)],
                            Number_(Len(s)))
  IN Stored(writer_require(w, Number_(Len(s))))

writer_writeUint8(w, value) == writer_put(w, BytesOf(value, 1, FALSE))
writer_writeUint16(w, value, littleEndian) ==
  writer_put(w, BytesOf(value, 2, orElse(littleEndian, w.littleEndian).kind = "true"))
writer_writeBytes(w, u8) == writer_put(w, u8)

(* --------------------------- the writer's caller ----------------------- *)
WriterOffsets == {-1, 0, 2, 1023, 1024, 1025, 2049}
WriterSteps == {-1, 1, 1024}
WriterAligns == {-1, 0, 4}

InitWriter ==
  /\ heap = ("bw" :> BinaryWriter(Undefined, Undefined))
  /\ pc = "idle"
  /\ call = [op |-> "none", arg |-> Undefined, made |-> 0]
  /\ pre = heap
  /\ ret = Undefined
  /\ err = ""

\* made counts the calls on the writer since it was constructed
ConstructWriter(u8, littleEndian) ==
  /\ pc = "idle"
  /\ heap' = ("bw" :> BinaryWriter(u8, littleEndian))
  /\ pre' = heap'
  /\ call' = [op |-> "none", arg |-> Undefined, made |-> 0]
  /\ UNCHANGED <<pc, ret, err>>

WriterReturn(op, arg, o) ==
  /\ pc = "idle"
  /\ call.made < MaxCalls
  /\ pc' = "returned"
  /\ call' = [op |-> op, arg |-> arg, made |-> call.made + 1]
  /\ pre' = heap
  /\ heap' = ("bw" :> o.r)
  /\ err' = o.err
  /\ ret' = o.ret

WriterContinue ==
  /\ pc = "returned"
  /\ pc' = "idle"
  /\ call' = [op |-> "none", arg |-> Undefined, made |-> call.made]
  /\ pre' = heap
  /\ ret' = Undefined
  /\ err' = ""
  /\ UNCHANGED heap

WriterSeek(n) == WriterReturn("seek", n, writer_seek(heap["bw"], n))
WriterBookmark(s) == WriterReturn("bookmark", String_(s), writer_bookmark(heap["bw"], s))
WriterRewind == WriterReturn("rewind", Undefined, writer_rewind(heap["bw"]))
WriterAdvance(n) == WriterReturn("advance", Number_(n), writer_advance(heap["bw"], Number_(n)))
WriterAlign(n) == WriterReturn("align", Number_(n), writer_align(heap["bw"], n))
WriteUint8(value) ==
  WriterReturn("writeUint8", Bytes_(BytesOf(value, 1, FALSE)), writer_writeUint8(heap["bw"], value))
WriteUint16(value, littleEndian) ==
  WriterReturn("writeUint16",
               Bytes_(BytesOf(value, 2, orElse(littleEndian, heap["bw"].littleEndian).kind = "true")),
               writer_writeUint16(heap["bw"], value, littleEndian))
WriteBytes(u8) == WriterReturn("writeBytes", Bytes_(u8), writer_writeBytes(heap["bw"], u8))

NextWriter ==
  \/ \E u8 \in {Undefined, Number_(4)}, littleEndian \in {Undefined, True} :
       ConstructWriter(u8, littleEndian)
  \/ WriterContinue
  \/ \E n \in WriterOffsets : WriterSeek(Number_(n))
  \/ \E s \in SeekNames : WriterSeek(String_(s))
  \/ WriterBookmark("a")
  \/ WriterRewind
  \/ \E n \in WriterSteps : WriterAdvance(n)
  \/ \E n \in WriterAligns : WriterAlign(n)
  \/ \E value \in {0, 263} : WriteUint8(value)
  \/ \E littleEndian \in {Undefined, False} : WriteUint16(258, littleEndian)
  \/ \E u8 \in {<<>>, <<9, 0, 9>>} : WriteBytes(u8)

SpecWriter == InitWriter /\ [][NextWriter]_vars


(* ======================= Decimal(x) of a float x ======================= *)
\* A Number is a binary float. The floats here have the layout of the
\* doubles with a shorter significand and a narrower exponent range:
\* MantissaBits bits of significand (53 in a double), the lowest bit of the
\* smallest floats worth 2^-MaxBinaryFraction (2^-1074) and that of the
\* largest 2^MaxBinaryExponent (2^971). The range reaches below 1e-6 and
\* above 1e21, where the text of a Number takes the exponent form.
MantissaBits == 3
MaxBinaryFraction == 24
MaxBinaryExponent == 72

\* The floats that are not negative, counted from zero upwards: n is the
\* n-th of them, Significand(n) * 2^BinaryExponent(n). The subnormals and
\* the first binade share the lowest exponent.
Hidden == 2 ^ (MantissaBits - 1)
MaxOrdinal == Hidden * (MaxBinaryExponent + MaxBinaryFraction + 1) + Hidden - 1
Significand(n) == IF n < 2 * Hidden THEN n ELSE Hidden + (n % Hidden)
BinaryExponent(n) ==
  IF n < 2 * Hidden THEN -MaxBinaryFraction ELSE n \div Hidden - 1 - MaxBinaryFraction

Float(neg, ord) == [kind |-> "number", neg |-> neg, ord |-> ord]
Infinity(neg) == [kind |-> "Infinity", neg |-> neg, ord |-> 0]
NotANumber == [kind |-> "NaN", neg |-> FALSE, ord |-> 0]

\* a === b of two Numbers: NaN equals nothing, the two zeros are equal
StrictEquals(a, b) ==
  /\ a.kind # "NaN"
  /\ b.kind # "NaN"
  /\ \/ a = b
     \/ a.kind = "number" /\ b.kind = "number" /\ a.ord = 0 /\ b.ord = 0

\* 2^n, by squaring
RECURSIVE WidePow2(_)
WidePow2(n) ==
  LET Squared(half) == WideMul(half, half)
  IN IF n <= 30 THEN WideOf(2 ^ n)
     ELSE IF n % 2 = 0 THEN Squared(WidePow2(n \div 2))
     ELSE WideMulSmall(Squared(WidePow2(n \div 2)), 2)

\* m * 2^e with e >= 0, and m * 2^e * 10^k
WideBinary(m, e) == WideMul(WideOf(m), WidePow2(e))

\* the division of m * 2^e by 10^q, for m > 0: the quotient q is the floor
\* and the remainder r is empty when the division is exact
BinaryOverPow10(m, e, q) ==
  WideDivMod(WideTimesPow10(WideBinary(m, max2(e, 0)), max2(-q, 0)),
             WideTimesPow10(WidePow2(max2(-e, 0)), max2(q, 0)))

WideFloor(o) == o.q
WideCeil(o) == IF o.r = <<>> THEN o.q ELSE WideAdd(o.q, WideOf(1))

\* the midpoint of the floats n and n + 1 is
\* MidSignificand(n) * 2^(BinaryExponent(n) - 1)
MidSignificand(n) ==
  Significand(n) + Significand(n + 1) * 2 ^ (BinaryExponent(n + 1) - BinaryExponent(n))

\* The decimal scales at which the digits of a float are looked for.
DecimalScales ==
  (-(MaxBinaryFraction \div 3 + MantissaBits + 2))..((MaxBinaryExponent + MantissaBits) \div 3)

\* Number::toString, steps 5 and following, for the float n > 0: the
\* integers s and q with the fewest digits in s for which s * 10^q is read
\* back as n, and of these the s that makes s * 10^q closest to n. The
\* texts read back as n are those between the midpoints to its two
\* neighbours, the midpoints themselves included when the significand of n
\* is even (ties are read to even).
ShortestDigits(n) ==
  LET closed == Significand(n) % 2 = 0
      Lowest(o) == IF closed THEN WideCeil(o) ELSE WideAdd(WideFloor(o), WideOf(1))
      Highest(o) ==
        IF closed \/ o.r # <<>> THEN WideFloor(o)
        ELSE IF o.q = <<>> THEN <<>> ELSE WideSub(o.q, WideOf(1))
      lo(q) == Lowest(BinaryOverPow10(MidSignificand(n - 1), BinaryExponent(n - 1) - 1, q))
      hi(q) == Highest(BinaryOverPow10(MidSignificand(n), BinaryExponent(n) - 1, q))
      Has(q) == LET Ordered(l, h) == h # <<>> /\ WideCmp(l, h) <= 0 IN Ordered(lo(q), hi(q))
      RECURSIVE ScaleFrom(_)
      ScaleFrom(q) == IF Has(q) THEN q ELSE ScaleFrom(q - 1)
      Nearest(o) ==
        LET Rounded(t, half) ==
              IF half < 0 THEN t
              ELSE IF half > 0 THEN t + 1
              ELSE IF t % 2 = 0 THEN t ELSE t + 1
        IN Rounded(Narrow(o.q), WideCmp(WideMulSmall(o.r, 2), o.d))
      Clamped(s, l, h) == IF s < l THEN l ELSE IF s > h THEN h ELSE s
      At(q) ==
        [s |-> Clamped(Nearest(BinaryOverPow10(Significand(n), BinaryExponent(n), q)),
                       Narrow(lo(q)), Narrow(hi(q))),
         q |-> q]
  IN At(ScaleFrom(CHOOSE q \in DecimalScales : \A p \in DecimalScales : p <= q))

\* Number::toString, steps 6 to 11: the text of s * 10^q, where digits are
\* the k digits of s and n = k + q
NumberText(digits, n) ==
  LET k == Len(digits)
      e == n - 1
      exponent == <<"e", IF e < 0 THEN "-" ELSE "+">> \o BigIntToString(abs(e))
  IN IF k <= n /\ n <= 21 THEN digits \o repeat("0", n - k)
     ELSE IF 0 < n /\ n <= 21 THEN SubSeq(digits, 1, n) \o <<".">> \o SubSeq(digits, n + 1, k)
     ELSE IF -6 < n /\ n <= 0 THEN <<"0", ".">> \o repeat("0", -n) \o digits
     ELSE IF k = 1 THEN digits \o exponent
     ELSE <<digits[1], ".">> \o SubSeq(digits, 2, k) \o exponent

\* Number.prototype.toString() of a finite Number
NumberToString(x) ==
  LET Text(sq) ==
        LET Digits(digits) == NumberText(digits, Len(digits) + sq.q)
        IN Digits(BigIntToString(sq.s))
  IN IF x.ord = 0 THEN <<"0">>
     ELSE (IF x.neg THEN <<"-">> ELSE <<>>) \o Text(ShortestDigits(x.ord))

\* the number of a text of decimal digits of any length
WideOfDigits(s) ==
  WideNorm([i \in 1..((Len(s) + 3) \div 4) |->
              DigitsValue(SubSeq(s, max2(1, Len(s) - 4 * i + 1), Len(s) - 4 * (i - 1)))])

\* n.toString() of a bigint n >= 0 of any size
RECURSIVE WideToString(_)
WideToString(w) ==
  IF Len(w) <= 1 THEN BigIntToString(Narrow(w))
  ELSE WideToString(Tail(w)) \o padStart(BigIntToString(Head(w)), 4, "0")

\* BigInt(string) of a text of digits without a sign, as parsePlainDecimal
\* calls it
wide_BigInt(s) ==
  IF s = <<>> \/ \E i \in 1..Len(s) : ~IsDigit(s[i]) THEN [ok |-> FALSE, mag |-> <<>>]
  ELSE [ok |-> TRUE, mag |-> WideOfDigits(s)]

WideParsed(neg, mag, digits) == [err |-> "", neg |-> neg, mag |-> mag, digits |-> digits]
WideParseError(msg) == [err |-> msg, neg |-> FALSE, mag |-> <<>>, digits |-> 0]

\* parsePlainDecimal, the coefficient of any size
wide_parsePlainDecimal(input) ==
  IF input = <<>> THEN WideParseError("Invalid number")
  ELSE LET negative == input[1] = "-"
           str == IF input[1] \in {"-", "+"} THEN sliceFrom(input, 1) ELSE input
       IN IF str = <<>> THEN WideParseError("Invalid number")
          ELSE LET dotIndex == indexOf(str, {"."})
                   intPart0 == IF dotIndex >= 0 THEN slice(str, 0, dotIndex) ELSE str
                   fracPart == IF dotIndex >= 0 THEN sliceFrom(str, dotIndex + 1) ELSE <<>>
                   intPart == IF intPart0 = <<>> THEN <<"0">> ELSE intPart0
                   combined == stripLeadingZeros(intPart \o fracPart)
                   coeffStr == IF combined = <<>> THEN <<"0">> ELSE combined
                   Signed(coeff) ==
                     IF ~coeff.ok THEN WideParseError("SyntaxError")
                     ELSE WideParsed(negative /\ coeff.mag # <<>>, coeff.mag, Len(fracPart))
               IN Signed(wide_BigInt(coeffStr))

\* parseDecimalString with the exponent added to the digits
wide_parseDecimalString_exponentAdded(value) ==
  LET exponentIndex == indexOf(value, {"e", "E"})
  IN IF exponentIndex = -1 THEN wide_parsePlainDecimal(value)
     ELSE LET basePart == slice(value, 0, exponentIndex)
              exponentPart == sliceFrom(value, exponentIndex + 1)
              Adjusted(p, adjustment) ==
                IF p.err # "" THEN p
                ELSE IF ~adjustment.ok THEN WideParseError("SyntaxError")
                ELSE WideParsed(p.neg, p.mag, p.digits + adjustment.val)
          IN IF trim(exponentPart) = <<>> THEN WideParseError("Invalid number")
             ELSE Adjusted(wide_parsePlainDecimal(basePart), BigInt(exponentPart))

\* parseDecimalString, the coefficient of any size
wide_parseDecimalString(value) ==
  LET exponentIndex == indexOf(value, {"e", "E"})
  IN IF exponentIndex = -1 THEN wide_parsePlainDecimal(value)
     ELSE LET basePart == slice(value, 0, exponentIndex)
              exponentPart == sliceFrom(value, exponentIndex + 1)
              Adjusted(p, adjustment) ==
                IF p.err # "" THEN p
                ELSE IF ~adjustment.ok THEN WideParseError("SyntaxError")
                ELSE WideParsed(p.neg, p.mag, p.digits - adjustment.val)
          IN IF trim(exponentPart) = <<>> THEN WideParseError("Invalid number")
             ELSE Adjusted(wide_parsePlainDecimal(basePart), BigInt(exponentPart))

\* new DecimalImpl(v) for a number v
DecimalImpl_number(h, v) ==
  LET Made(p) ==
        IF p.err # "" THEN Throw(h, p.err)
        ELSE Ok(("x" :> WideDecimal(p.neg, p.mag, p.digits)) @@ h)
  IN IF v.kind = "NaN" \/ v.kind = "Infinity" THEN Throw(h, "Invalid number")
     ELSE Made(wide_parseDecimalString(NumberToString(v)))

\* toString, the coefficient of any size
wide_toString(v) ==
  IF v.mag = <<>>
  THEN IF v.digits <= 0 THEN <<"0">> ELSE <<"0", ".">> \o repeat("0", v.digits)
  ELSE LET sign == IF v.neg THEN <<"-">> ELSE <<>>
           Rendered_(coeffDigits) ==
             IF v.digits <= 0 THEN sign \o coeffDigits \o repeat("0", -v.digits)
             ELSE LET decimals == v.digits
                      padded == padStart(coeffDigits, decimals + 1, "0")
                      split == Len(padded) - decimals
                      integerPart == slice(padded, 0, split)
                      fractionPart == padEnd(sliceFrom(padded, split), decimals, "0")
                  IN sign \o integerPart \o <<".">> \o fractionPart
       IN Rendered_(WideToString(v.mag))

\* -1, 0 or 1 as m * 2^e is below, equal to or above c / 10^d, for d >= 0
CmpBinaryDecimal(m, e, c, d) ==
  WideCmp(WideTimesPow10(WideBinary(m, max2(e, 0)), d), WideMul(c, WidePow2(max2(-e, 0))))

\* The float nearest to c / 10^d, by its place among the floats: the
\* greatest float not above the value, found by halving lo..hi, or the next
\* one when the value is beyond the midpoint of the two, or at it and the
\* next one has the even significand. Beyond the largest float is Infinity.
RoundToFloat(neg, c, d) ==
  LET RECURSIVE FloorOrdinal(_, _)
      FloorOrdinal(lo, hi) ==
        LET Halved(mid) ==
              IF CmpBinaryDecimal(Significand(mid), BinaryExponent(mid), c, d) <= 0
              THEN FloorOrdinal(mid, hi) ELSE FloorOrdinal(lo, mid - 1)
        IN IF lo = hi THEN lo ELSE Halved((lo + hi + 1) \div 2)
      Tie(n, side) ==
        IF side > 0 \/ (side = 0 /\ Significand(n) % 2 = 0) THEN n ELSE n + 1
      Nearest(n) == Tie(n, CmpBinaryDecimal(MidSignificand(n), BinaryExponent(n) - 1, c, d))
      Result(n) == IF n > MaxOrdinal THEN Infinity(neg) ELSE Float(neg, n)
  IN Result(Nearest(FloorOrdinal(0, MaxOrdinal)))

\* Number(string), for the texts toString() renders: an optional minus
\* sign and decimal digits with an optional point, read to the nearest
\* float; the empty text is 0 and any other text is NaN
StringToNumber(s) ==
  LET str == trim(s)
      neg == str # <<>> /\ Head(str) = "-"
      body == IF str # <<>> /\ Head(str) \in {"-", "+"} THEN Tail(str) ELSE str
      dotIndex == indexOf(body, {"."})
      intPart == IF dotIndex >= 0 THEN slice(body, 0, dotIndex) ELSE body
      fracPart == IF dotIndex >= 0 THEN sliceFrom(body, dotIndex + 1) ELSE <<>>
      allDigits == intPart \o fracPart
  IN IF str = <<>> THEN Float(FALSE, 0)
     ELSE IF allDigits = <<>> \/ \E i \in 1..Len(allDigits) : ~IsDigit(allDigits[i])
       THEN NotANumber
     ELSE RoundToFloat(neg, WideOfDigits(allDigits), Len(fracPart))

\* number(): Number(this.toString())
number(h, self) == StringToNumber(wide_toString(h[self]))

(* ------------------- the caller of Decimal(x).number() ----------------- *)
Floats == {Float(neg, n) : neg \in BOOLEAN, n \in 0..MaxOrdinal}
Numbers == Floats \cup {NotANumber, Infinity(FALSE), Infinity(TRUE)}

InitFloat ==
  /\ heap = ModuleObjects
  /\ pc = "idle"
  /\ call = NoCall
  /\ pre = heap
  /\ ret = NoRet
  /\ err = ""

\* Decimal(x) for a number x
ConstructNumber(x) ==
  /\ pc = "idle"
  /\ "x" \notin DOMAIN heap
  /\ LET o == DecimalImpl_number(heap, x)
     IN /\ pc' = "returned"
        /\ call' = [NoCall EXCEPT !.op = "Decimal", !.self = "x", !.arg = x]
        /\ pre' = heap
        /\ heap' = o.h
        /\ err' = o.err
        /\ ret' = IF o.err = "" THEN [a |-> "x", b |-> "none"] ELSE NoRet

\* .number() on the value Decimal(x) returned
NumberOf ==
  /\ pc = "returned"
  /\ call.op = "Decimal"
  /\ err = ""
  /\ pc' = "returned"
  /\ call' = [call EXCEPT !.op = "number"]
  /\ pre' = heap
  /\ heap' = heap
  /\ err' = ""
  /\ ret' = [a |-> "none", b |-> "none", num |-> number(heap, "x")]

NextFloat ==
  \/ \E x \in Numbers : ConstructNumber(x)
  \/ NumberOf
  \/ Restart

SpecFloat == InitFloat /\ [][NextFloat]_vars

(* ======================= properties of the calls ======================= *)
Returned == pc = "returned"
Before == pre["x"]
ArgValue == pre[call.arg]
After == heap[call.self]

\* the coefficient of v written at scale s (s >= v.digits)
Scaled(v, s) == v.coeff * (10 ^ (s - v.digits))
max3(a, b, c) == max2(a, max2(b, c))

\* q is n/d (d > 0) rounded to an integer under each mode
IsFloor(q, n, d) == q * d <= n /\ n < (q + 1) * d
IsCeil(q, n, d) == (q - 1) * d < n /\ n <= q * d
IsTrunc(q, n, d) == IF n >= 0 THEN IsFloor(q, n, d) ELSE IsCeil(q, n, d)
IsRoundHalfAway(q, n, d) ==
  LET diff == 2 * (n - q * d)
  IN /\ -d <= diff /\ diff <= d
     /\ diff = d => n < 0
     /\ diff = -d => n > 0
Rounded(mode, q, n, d) ==
  CASE mode = "floor" -> IsFloor(q, n, d)
    [] mode = "ceil" -> IsCeil(q, n, d)
    [] mode = "trunc" -> IsTrunc(q, n, d)
    [] mode = "round" -> IsRoundHalfAway(q, n, d)

\* C1: add and sub are exact: the result has scale max(scale(a), scale(b))
\* and its coefficient is the sum (difference) of the two coefficients
\* aligned to that scale, also when it cancels to zero; subtracting b from
\* a.add(b) gives a value equal to a.
C1_AddSubExact ==
  (Returned /\ call.op \in {"add", "sub"}) =>
    LET a == Before
        b == ArgValue
        s == max2(a.digits, b.digits)
        back == sub_(("t" :> After) @@ ("b" :> b), "t", "b").h["t"]
    IN /\ err = ""
       /\ After.digits = s
       /\ call.op = "add" => After.coeff = Scaled(a, s) + Scaled(b, s)
       /\ call.op = "sub" => After.coeff = Scaled(a, s) - Scaled(b, s)
       /\ call.op = "add" => cmp(back, a) = 0

C1_Witness ==
  /\ Returned /\ call.op = "add" /\ err = ""
  /\ Before.coeff # 0 /\ Before.digits # ArgValue.digits
  /\ After.coeff # Before.coeff + ArgValue.coeff

C1_WitnessCancel ==
  /\ Returned /\ call.op = "add" /\ err = ""
  /\ Before.coeff # 0 /\ After.coeff = 0 /\ After.digits # 0

\* C2: for an integer digit count d smaller than v's scale, trunc(d),
\* floor(d), ceil(d) and round(d) return a value of scale exactly d that is
\* v rounded to a multiple of 10^-d toward zero, down, up, and to nearest
\* with ties away from zero.
C2_RoundingModes ==
  (/\ Returned /\ call.op \in {"round", "floor", "ceil", "trunc"}
   /\ call.digits.kind # "frac"
   /\ OrDefault(call.digits, 0) < Before.digits) =>
    LET d == OrDefault(call.digits, 0)
    IN /\ err = ""
       /\ After.digits = d
       /\ Rounded(call.op, After.coeff, Before.coeff, 10 ^ (Before.digits - d))

\* a negative value exactly half way between two multiples, negative d
C2_Witness ==
  /\ Returned /\ call.op = "round" /\ err = ""
  /\ call.digits.kind = "int" /\ call.digits.val < 0
  /\ call.digits.val < Before.digits
  /\ Before.coeff < 0
  /\ 2 * abs(Before.coeff) = 10 ^ (Before.digits - call.digits.val)
  /\ After.coeff < 0

\* C3: for nonzero a and b, digits d >= 0 and every mode, a.div(b, d, mode)
\* has scale d and equals the exact quotient a/b rounded to d fractional
\* digits under that mode.
C3_DivRounded ==
  (/\ Returned /\ call.op = "div"
   /\ call.digits.kind = "int" /\ call.digits.val >= 0
   /\ Before.coeff # 0 /\ ArgValue.coeff # 0) =>
    LET a == Before
        b == ArgValue
        d == call.digits.val
        shift == b.digits + d - a.digits
        \* a/b * 10^d = n / m with m > 0
        sgn == IF b.coeff < 0 THEN -1 ELSE 1
        n == sgn * (IF shift >= 0 THEN a.coeff * (10 ^ shift) ELSE a.coeff)
        m == abs(b.coeff) * (IF shift >= 0 THEN 1 ELSE 10 ^ (-shift))
    IN /\ err = ""
       /\ After.digits = d
       /\ Rounded(call.mode, After.coeff, n, m)


\* a negative divisor with a nonzero remainder
C3_Case ==
  /\ Returned /\ call.op = "div" /\ err = ""
  /\ call.digits.kind = "int" /\ call.digits.val >= 0
  /\ Before.coeff # 0 /\ ArgValue.coeff < 0

\* r is an integer multiple of the positive step m, and is v aligned to the
\* multiples of m under mode
AlignedBy(mode, r, v, m) ==
  LET s == max3(r.digits, v.digits, m.digits)
      R == Scaled(r, s)
      V == Scaled(v, s)
      M == Scaled(m, s)
  IN /\ R % M = 0
     /\ Rounded(mode, R \div M, V, M)

\* C4: split(digits, mode) and splitBy(step, mode) return (aligned,
\* remainder) with aligned + remainder equal to v exactly, where aligned is
\* v rescaled to digits (aligned to the step) under that mode.
C4_SplitSum ==
  (/\ Returned /\ call.op \in {"split", "splitBy"}
   /\ call.digits.kind # "frac"
   /\ call.op = "splitBy" => ArgValue.coeff # 0) =>
    /\ err = ""
    /\ ret.a = call.self /\ ret.b = "r2"
    /\ LET v == Before
           aligned == heap[ret.a]
           remainder == heap[ret.b]
           s == max3(v.digits, aligned.digits, remainder.digits)
           d == OrDefault(call.digits, 0)
       IN /\ Scaled(aligned, s) + Scaled(remainder, s) = Scaled(v, s)
          /\ call.op = "split" =>
               /\ aligned.digits = d
               /\ IF d >= v.digits THEN aligned.coeff = Scaled(v, d)
                  ELSE Rounded(call.mode, aligned.coeff, v.coeff, 10 ^ (v.digits - d))
          /\ call.op = "splitBy" =>
               AlignedBy(call.mode, aligned, v, D(abs(ArgValue.coeff), ArgValue.digits))

\* a split that rounds up, leaving a negative remainder
C4_Witness ==
  /\ Returned /\ call.op = "split" /\ err = ""
  /\ call.mode = "round" /\ Before.coeff > 0
  /\ heap[ret.b].coeff < 0 /\ heap[ret.a].coeff > 0

\* the in-place method of a call, run on object self of heap h
Apply_(h, self) ==
  CASE call.op = "add" -> add_(h, self, call.arg)
    [] call.op = "sub" -> sub_(h, self, call.arg)
    [] call.op = "mul" -> mul_(h, self, call.arg, call.digits)
    [] call.op = "div" -> div_(h, self, call.arg, call.digits, call.mode)
    [] call.op = "inverse" -> inverse_(h, self, call.digits)
    [] call.op = "mod" -> mod_(h, self, call.arg)
    [] call.op = "modPositive" -> modPositive_(h, self, call.arg)
    [] call.op = "neg" -> neg_(h, self)
    [] call.op = "abs" -> abs_(h, self)
    [] call.op = "shift10" -> shift10_(h, self, call.digits)
    [] call.op = "round" -> round_(h, self, call.digits, call.force)
    [] call.op = "floor" -> floor_(h, self, call.digits, call.force)
    [] call.op = "ceil" -> ceil_(h, self, call.digits, call.force)
    [] call.op = "trunc" -> trunc_(h, self, call.digits, call.force)
    [] call.op = "rescale" -> rescale_(h, self, call.digits, call.mode)
    [] call.op = "roundBy" -> roundBy_(h, self, call.arg, call.mode)
    [] call.op = "floorBy" -> floorBy_(h, self, call.arg)
    [] call.op = "ceilBy" -> ceilBy_(h, self, call.arg)
    [] call.op = "truncBy" -> truncBy_(h, self, call.arg)

C6_NoPartialMutation ==
  (Returned /\ call.inplace /\ err # "") => heap["x"] = pre["x"]

\* C7: div, mod and modPositive with a zero-valued divisor of any scale
\* (also when the dividend is zero), and inverse of a zero-valued receiver,
\* throw 'Division by zero'.
C7_DivisionByZero ==
  /\ (/\ Returned /\ call.op \in {"div", "mod", "modPositive"}
      /\ call.digits.kind # "frac"
      /\ ArgValue.coeff = 0) => err = "Division by zero"
  /\ (Returned /\ call.op = "inverse" /\ Before.coeff = 0) => err = "Division by zero"

\* zero divided by a zero of nonzero scale
C7_Witness ==
  /\ Returned /\ call.op = "div" /\ err = "Division by zero"
  /\ Before.coeff = 0 /\ call.arg = "v" /\ ArgValue.coeff = 0 /\ ArgValue.digits < 0

C9_ZeroDividend ==
  (/\ Returned /\ call.op = "div" /\ call.digits.kind # "frac"
   /\ Before.coeff = 0 /\ ArgValue.coeff # 0) =>
    /\ err = ""
    /\ After = Before

\* a zero of nonzero scale divided with the digits omitted
C9_Witness ==
  /\ Returned /\ call.op = "div" /\ err = ""
  /\ call.digits.kind = "undef"
  /\ Before.coeff = 0 /\ Before.digits # 0 /\ ArgValue.coeff # 0
  /\ After.digits = Before.digits

\* C10: rescale() with no target digits on a zero-valued decimal of any
\* scale yields coefficient 0 with scale 0.
C10_ZeroCollapses ==
  (/\ Returned /\ call.op = "rescale" /\ call.digits.kind = "undef"
   /\ Before.coeff = 0) =>
    /\ err = ""
    /\ After = D(0, 0)

(* ================= properties of parsing and rendering ================= *)
IsDigits(s) == s # <<>> /\ \A i \in 1..Len(s) : IsDigit(s[i])

\* decimal digits with at most one '.', and at least one digit
IsMantissa(s) ==
  /\ \A i \in 1..Len(s) : IsDigit(s[i]) \/ s[i] = "."
  /\ Cardinality({i \in 1..Len(s) : s[i] = "."}) <= 1
  /\ \E i \in 1..Len(s) : IsDigit(s[i])

IsSignedInteger(s) ==
  IsDigits(IF s # <<>> /\ s[1] \in {"+", "-"} THEN Tail(s) ELSE s)

\* [sign] mantissa [('e' | 'E') signed integer]
WellFormed(s) ==
  LET u == IF s # <<>> /\ s[1] \in {"+", "-"} THEN Tail(s) ELSE s
      e == indexOf(u, {"e", "E"})
  IN IF e = -1 THEN IsMantissa(u)
     ELSE IsMantissa(SubSeq(u, 1, e)) /\ IsSignedInteger(SubSeq(u, e + 2, Len(u)))

\* the empty string, a bare sign, an exponent without a mantissa
NoMantissa(s) ==
  LET u == IF s # <<>> /\ s[1] \in {"+", "-"} THEN Tail(s) ELSE s
  IN u = <<>> \/ (u[1] \in {"e", "E"} /\ IsSignedInteger(Tail(u)))

\* C11: Decimal(s) throws for every string s that, once trimmed, is not
\* [sign] digits-with-at-most-one-point [e signed-integer]; the empty
\* string, a bare sign and an exponent without mantissa throw
\* 'Invalid number'.
C11_MalformedThrows ==
  (Returned /\ call.op = "Decimal") =>
    /\ ~WellFormed(trim(call.arg)) => err # ""
    /\ NoMantissa(trim(call.arg)) => err = "Invalid number"

\* a malformed string from which a Decimal was constructed
C11_Accepted ==
  /\ Returned /\ call.op = "Decimal" /\ err = ""
  /\ ~WellFormed(trim(call.arg))

\* str is a plain rendering with n fractional digits: an optional '-',
\* integer digits without a superfluous leading zero, and a point followed
\* by exactly n digits when n > 0 (no point when n = 0)
FixedForm(str, n) ==
  LET negative == str # <<>> /\ str[1] = "-"
      body == IF negative THEN Tail(str) ELSE str
      dot == indexOf(body, {"."})
      intPart == IF dot = -1 THEN body ELSE SubSeq(body, 1, dot)
      fracPart == IF dot = -1 THEN <<>> ELSE SubSeq(body, dot + 2, Len(body))
  IN /\ (dot = -1) <=> (n = 0)
     /\ IsDigits(intPart)
     /\ Len(intPart) > 1 => intPart[1] # "0"
     /\ Len(fracPart) = n
     /\ n > 0 => IsDigits(fracPart)

\* the integer q for which a rendering of n fractional digits reads q * 10^-n
Denoted(str) ==
  LET negative == str # <<>> /\ str[1] = "-"
      body == IF negative THEN Tail(str) ELSE str
      figures == SelectSeq(body, IsDigit)
  IN (IF negative THEN -1 ELSE 1) * DigitsValue(figures)

\* q * 10^-n is v rounded half away from zero to n fractional digits
RoundedTo(q, v, n) ==
  IF n >= v.digits THEN q = Scaled(v, n)
  ELSE IsRoundHalfAway(q, v.coeff, 10 ^ (v.digits - n))

\* C12: for an integer n >= 0, v.toFixed(n) is the rendering of v rounded
\* half away from zero to n fractional digits, with exactly n digits after
\* the point (no point when n = 0), and v is unchanged; a negative or
\* non-integer n throws.
C12_ToFixed ==
  (Returned /\ call.op = "toFixed") =>
    /\ heap["x"] = pre["x"]
    /\ IF call.digits.kind = "int" /\ call.digits.val >= 0
       THEN /\ err = ""
            /\ FixedForm(ret.str, call.digits.val)
            /\ RoundedTo(Denoted(ret.str), Before, call.digits.val)
            /\ (ret.str[1] = "-") <=> (Denoted(ret.str) < 0)
       ELSE err # ""

\* a negative value half way between two multiples of 10^-n
C12_Witness ==
  /\ Returned /\ call.op = "toFixed" /\ err = ""
  /\ call.digits.val > 0 /\ call.digits.val < Before.digits
  /\ Before.coeff < 0
  /\ 2 * abs(Before.coeff) = 10 ^ (Before.digits - call.digits.val)
  /\ ret.str[1] = "-" /\ ret.str[Len(ret.str)] # "0"

\* a value padded with zeros up to n digits
C12_WitnessPadded ==
  /\ Returned /\ call.op = "toFixed" /\ err = ""
  /\ call.digits.val > Before.digits /\ Before.coeff # 0
  /\ ret.str[Len(ret.str)] = "0"

(* ========================= properties of pow =========================== *)
\* the integer an integer-valued exponent e denotes, in absolute value
Whole(e) == e.digits <= 0 \/ abs(e.coeff) % (10 ^ e.digits) = 0
WholeAbs(e) ==
  IF e.digits <= 0 THEN abs(e.coeff) * (10 ^ (-e.digits))
  ELSE abs(e.coeff) \div (10 ^ e.digits)

\* C13: pow with a zero-valued exponent of any scale returns coefficient 1,
\* scale 0, for every base (zero included) and every digits; pow of a zero
\* base with a positive exponent returns the zero receiver with its scale
\* unchanged; a zero base with a negative exponent throws.
C13_PowZero ==
  (Returned /\ call.op = "pow" /\ call.digits.kind # "frac") =>
    /\ ArgValue.coeff = 0 => (err = "" /\ After = D(1, 0))
    /\ (Before.coeff = 0 /\ ArgValue.coeff > 0) => (err = "" /\ After = Before)
    /\ (Before.coeff = 0 /\ ArgValue.coeff < 0) =>
         err = "Zero to negative exponent is undefined"

\* zero to the power of a zero of nonzero scale
C13_Witness ==
  /\ Returned /\ call.op = "pow" /\ err = ""
  /\ Before.coeff = 0 /\ Before.digits # 0
  /\ ArgValue.coeff = 0 /\ ArgValue.digits # 0
  /\ After = D(1, 0)

\* a zero of nonzero scale raised to a positive fractional exponent
C13_WitnessZeroBase ==
  /\ Returned /\ call.op = "pow" /\ err = ""
  /\ Before.coeff = 0 /\ Before.digits # 0
  /\ ArgValue.coeff > 0 /\ ArgValue.digits > 0
  /\ After = Before

\* base^n as an exact decimal
RECURSIVE Product(_, _)
Product(base, n) ==
  IF n = 0 THEN D(1, 0)
  ELSE LET half == Product(base, n \div 2)
           sq == D(half.coeff * half.coeff, 2 * half.digits)
       IN IF n % 2 = 0 THEN sq
          ELSE D(sq.coeff * base.coeff, sq.digits + base.digits)

\* C14: for a nonzero base, an integer-valued exponent n >= 1 in any
\* representation and digits p >= 0, base.pow(n, p) has scale exactly p and
\* equals the exact product of n copies of base rounded half away from zero
\* to p fractional digits.
C14_PowInteger ==
  (/\ Returned /\ call.op = "pow"
   /\ call.digits.kind = "int" /\ call.digits.val >= 0
   /\ Before.coeff # 0 /\ ArgValue.coeff > 0 /\ Whole(ArgValue)) =>
    /\ err = ""
    /\ After.digits = call.digits.val
    /\ RoundedTo(After.coeff, Product(Before, WholeAbs(ArgValue)), call.digits.val)

\* a negative base squared, the exponent written with a trailing zero, and
\* the exact power half way between two multiples of 10^-p
C14_Witness ==
  /\ Returned /\ call.op = "pow" /\ err = ""
  /\ call.digits.kind = "int" /\ call.digits.val >= 0
  /\ Before.coeff < 0
  /\ ArgValue.coeff > 0 /\ ArgValue.digits = 1 /\ Whole(ArgValue) /\ WholeAbs(ArgValue) = 2
  /\ LET exact == Product(Before, 2)
     IN /\ exact.digits > call.digits.val
        /\ 2 * abs(exact.coeff) % (10 ^ (exact.digits - call.digits.val)) = 0
        /\ abs(exact.coeff) % (10 ^ (exact.digits - call.digits.val)) # 0

\* the tenth power, the exponent written as coefficient 1 at scale -1
C14_WitnessTens ==
  /\ Returned /\ call.op = "pow" /\ err = ""
  /\ call.digits.kind = "int" /\ call.digits.val >= 0
  /\ abs(Before.coeff) > 1 /\ ArgValue = D(1, -1)

\* C15: for a nonzero base of either sign, an integer n >= 1 and digits
\* p >= 0, base.pow(-n, p) has scale exactly p and equals 1 / base^n rounded
\* half away from zero to p fractional digits.
C15_PowNegative ==
  (/\ Returned /\ call.op = "pow"
   /\ call.digits.kind = "int" /\ call.digits.val >= 0
   /\ Before.coeff # 0 /\ ArgValue.coeff < 0 /\ Whole(ArgValue)) =>
    LET p == call.digits.val
        power == Product(Before, WholeAbs(ArgValue))
        shift == power.digits + p
        \* 10^p / base^n = n1 / m1 with m1 > 0
        sgn == IF power.coeff < 0 THEN -1 ELSE 1
        n1 == sgn * (IF shift >= 0 THEN 10 ^ shift ELSE 1)
        m1 == abs(power.coeff) * (IF shift >= 0 THEN 1 ELSE 10 ^ (-shift))
    IN /\ err = ""
       /\ After.digits = p
       /\ IsRoundHalfAway(After.coeff, n1, m1)

\* a negative base to a negative odd power that does not divide 10^p
C15_Case ==
  /\ Returned /\ call.op = "pow" /\ err = ""
  /\ call.digits.kind = "int" /\ call.digits.val >= 0
  /\ Before.coeff < 0 /\ ArgValue.coeff < 0 /\ Whole(ArgValue)
  /\ WholeAbs(ArgValue) % 2 = 1
  /\ After.coeff > 0

(* ====================== properties of the remainders =================== *)
\* r differs from a by an integer multiple of the positive b
CongruentMod(r, a, b) ==
  LET s == max3(r.digits, a.digits, b.digits)
  IN (Scaled(a, s) - Scaled(r, s)) % Scaled(b, s) = 0

\* C18: for every dividend a and positive divisor b, a.mod(b) is zero or has
\* the sign of a, has magnitude below b and differs from a by an integer
\* multiple of b; a.modPositive(b) returns r with 0 <= r < b differing from
\* a by an integer multiple of b; modPositive throws for every divisor <= 0.
C18_Remainders ==
  (Returned /\ call.op \in {"mod", "modPositive"}) =>
    LET a == Before
        b == ArgValue
        r == After
    IN IF b.coeff > 0
       THEN /\ err = ""
            /\ CongruentMod(r, a, b)
            /\ cmp(D(abs(r.coeff), r.digits), b) = -1
            /\ call.op = "mod" =>
                 \/ r.coeff = 0
                 \/ (r.coeff > 0) = (a.coeff > 0)
            /\ call.op = "modPositive" => r.coeff >= 0
       ELSE call.op = "modPositive" => err # ""

\* a negative dividend whose remainder is moved up by the divisor, the two
\* at different scales
C18_Witness ==
  /\ Returned /\ call.op = "modPositive" /\ err = ""
  /\ Before.coeff < 0 /\ ArgValue.coeff > 0
  /\ Before.digits # ArgValue.digits
  /\ After.coeff > 0

\* a negative divisor given to modPositive
C18_WitnessThrows ==
  /\ Returned /\ call.op = "modPositive"
  /\ ArgValue.coeff < 0
  /\ err = "Modulo divisor must be positive"

(* =================== properties of Decimal and minmax ================== *)
\* the values of the entries that are not nullish
Present(values, x) ==
  {IF values[i].kind = "decimal" THEN x ELSE values[i].val :
     i \in {j \in 1..Len(values) : values[j].kind # "null"}}

\* C19: minmax(values...) ignores null and undefined entries and returns
\* [m, M] with m <= every remaining entry <= M, each of m and M numerically
\* equal to one of the entries; with no entry left (the empty list
\* included) both are null; min and max return m and M.
C19_MinMax ==
  (Returned /\ call.op \in {"minmax", "min", "max"}) =>
    LET entries == Present(call.arg, Before)
        IsMin(ref) == /\ ref \notin {"null", "none"}
                      /\ \A e \in entries : cmp(heap[ref], e) <= 0
                      /\ \E e \in entries : cmp(heap[ref], e) = 0
        IsMax(ref) == /\ ref \notin {"null", "none"}
                      /\ \A e \in entries : cmp(heap[ref], e) >= 0
                      /\ \E e \in entries : cmp(heap[ref], e) = 0
    IN /\ err = ""
       /\ IF entries = {}
          THEN ret.a = "null" /\ ret.b \in {"null", "none"}
          ELSE CASE call.op = "minmax" -> IsMin(ret.a) /\ IsMax(ret.b)
                 [] call.op = "min" -> IsMin(ret.a)
                 [] call.op = "max" -> IsMax(ret.a)

\* a list with a null entry whose smallest and largest entries differ, one
\* of them being the caller's Decimal
C19_Witness ==
  /\ Returned /\ call.op = "minmax"
  /\ \E i \in 1..Len(call.arg) : call.arg[i].kind = "null"
  /\ \E i \in 1..Len(call.arg) : call.arg[i].kind = "payload"
  /\ ret.a = "x" /\ ret.b \notin {"x", "null"}
  /\ cmp(heap[ret.a], heap[ret.b]) < 0

\* a list of nullish entries only
C19_WitnessNone ==
  /\ Returned /\ call.op = "minmax" /\ Len(call.arg) > 1
  /\ ret.a = "null" /\ ret.b = "null"

\* C20: after y = Decimal(x), min(...), max(...) or minmax(...) over inputs
\* that include an existing Decimal x, an in-place operation applied to the
\* returned value never changes x's (coeff, digits).
C20_NoSharedState ==
  pc = "mutated" => heap["x"] = pre["x"]

\* C20, amended: Decimal(x) returns x itself and minmax, min and max return
\* the entries themselves, so the returned handle is either the object x or
\* an object made by that call; an in-place operation on the returned handle
\* changes x exactly when the handle is x, and never through another object.
C20_SharedOnlyWithInput ==
  /\ (Returned /\ call.op = "Decimal") => ret.a = "x"
  /\ (Returned /\ call.op \in {"minmax", "min", "max"}) =>
       \A r \in {ret.a, ret.b} \ {"none", "null"} :
         \/ r = "x" /\ \E i \in 1..Len(call.arg) : call.arg[i].kind = "decimal"
         \/ r # "x" /\ r \notin DOMAIN pre
  /\ pc = "mutated" =>
       /\ call.self # "x" => heap["x"] = pre["x"]
       /\ (call.self = "x" /\ call.mode = "shift10") => heap["x"] # pre["x"]

\* min over a list holding x returned another entry, and that one was changed
C20_Witness ==
  /\ pc = "mutated" /\ call.op = "min"
  /\ \E i \in 1..Len(call.arg) : call.arg[i].kind = "decimal"
  /\ call.self # "x"
  /\ heap[call.self] # D(0, 0) /\ call.mode = "neg"
  /\ heap["x"] = pre["x"]

\* x changed through the handle that max returned
C20_WitnessShared ==
  /\ pc = "mutated" /\ call.op = "max"
  /\ call.self = "x"
  /\ heap["x"] # pre["x"]

(* ========================= properties of log =========================== *)
\* a call of log or log$ that returned a value
Logged == Returned /\ call.op = "log" /\ err = ""
\* the digits the call asked for
LogPrecision == ensureDigits(OrDefault(call.digits, DEFAULT_DIVISION_PRECISION))
LogSettings == estimateLogGuardSettings(LogPrecision, ArgValue.digits, Before.digits)

C17_WitnessZero ==
  /\ Logged /\ call.digits.val <= 0
  /\ logValue(Widen(Before), Widen(ArgValue), 0).loop.flags # <<>>
  /\ After.digits = 0

\* w to the power n
RECURSIVE WidePower(_, _)
WidePower(w, n) == IF n = 0 THEN WideOf(1) ELSE WideMul(WidePower(w, n - 1), w)

\* the integer stage of a call of log: extractLogIntegerAndNormalize on the
\* receiver and the base of the call
LogInteger ==
  extractLogIntegerAndNormalize(Widen(Before), Widen(ArgValue),
                                LogSettings.fracPrec, LogSettings.guardPrec)

\* b to the power n >= 0, exactly
WideDecimalPower(b, n) == WideDecimal(FALSE, WidePower(b.mag, n), b.digits * n)

\* b^e <= v < b^(e+1) for positive v and b; with e < 0 as
\* 1 <= v * b^(-e) and v * b^(-e-1) < 1
Bracketed(v, b, e) ==
  IF e >= 0
  THEN /\ wide_cmp(WideDecimalPower(b, e), v) <= 0
       /\ wide_cmp(v, WideDecimalPower(b, e + 1)) < 0
  ELSE /\ wide_cmp(WIDE_ONE, wide_mul(v, WideDecimalPower(b, -e))) <= 0
       /\ wide_cmp(wide_mul(v, WideDecimalPower(b, -e - 1)), WIDE_ONE) < 0

\* v = b^e exactly
ExactPower(v, b, e) ==
  IF e >= 0 THEN wide_cmp(WideDecimalPower(b, e), v) = 0
  ELSE wide_cmp(wide_mul(v, WideDecimalPower(b, -e)), WIDE_ONE) = 0

\* C26: for every positive value v and every base b > 1, the integer
\* exponent e extracted by the logarithm engine satisfies
\* b^e <= v < b^(e+1), the remainder handed to the fractional stage lies in
\* [1, b), and the logarithm of an exact power b^k is exactly k.
C26_IntegerBracket ==
  (Logged /\ cmp(ArgValue, D(1, 0)) > 0) =>
    LET v == Widen(Before)
        b == Widen(ArgValue)
    IN /\ Bracketed(v, b, LogInteger.exponent)
       /\ wide_cmp(WIDE_ONE, LogInteger.remainder) <= 0
       /\ wide_cmp(LogInteger.remainder, b) < 0
       /\ \A k \in -4..4 : ExactPower(v, b, k) => cmp(After, D(k, 0)) = 0

\* the quotient of 999999999 by 10^8, rounded to six digits, is 10: the
\* exponent of the call is 9 and 10^9 is above the value
C26_Case ==
  /\ Logged /\ Before = D(999999999, 0) /\ ArgValue = D(1, -1)
  /\ LogPrecision = 0
  /\ LogInteger.exponent = 9
  /\ After = D(9, 0)

\* the remainder of 99999999 in base 10 is the base itself
C26_CaseRemainder ==
  /\ Logged /\ Before = D(99999999, 0) /\ ArgValue = D(1, -1)
  /\ LogPrecision = 0
  /\ LogInteger.exponent = 7
  /\ wide_cmp(LogInteger.remainder, Widen(ArgValue)) = 0

\* an exact negative power: log2(0.5) = -1
C26_CaseExact ==
  /\ Logged /\ Before = D(5, 1) /\ ArgValue = D(2, 0)
  /\ LogInteger.exponent = -1
  /\ cmp(After, D(-1, 0)) = 0

(* ------------------ properties of the loops of log --------------------- *)
\* C27: log terminates on valid input. The loop of estimateLogGuardSettings
\* raises guardPrec in every round that does not return, and it returns
\* within three rounds with guardPrec >= max(baseScale, valueScale, 0) + 1
\* and guardPrec >= ceil(log10(2 * bits)) + 1, the settings that log$ goes
\* on with; the squaring loop ends because the base it squares, the base
\* or the rounded reciprocal of a base below one, is above one; so every
\* call that has started returns.
C27_LogTerminates ==
  /\ [][(pc = "guard" /\ pc' = "guard") =>
          call'.frame.guardPrec > call.frame.guardPrec]_vars
  /\ [](pc = "squares" =>
          LET s == call.frame.settings
          IN /\ call.frame.rounds <= 3
             /\ s.guardPrec >= max3(pre[call.arg].digits, pre["x"].digits, 0) + 1
             /\ s.guardPrec >= ceilLog10(2 * s.bits) + 1
             /\ [guardPrec |-> s.guardPrec, fracPrec |-> s.fracPrec, bits |-> s.bits,
                 divPrec |-> s.divPrec, rounds |-> call.frame.rounds]
                  = estimateLogGuardSettings(call.frame.target,
                                             pre[call.arg].digits, pre["x"].digits)
             /\ wide_cmp(call.frame.baseNorm, WIDE_ONE) > 0
             /\ wide_cmp(call.frame.power, WIDE_ONE) > 0)
  /\ (pc \in {"guard", "settled", "squares", "rest"}) ~> (pc = "returned" /\ err = "")

\* a call whose guard loop took three rounds has returned
C27_Witness ==
  /\ Returned /\ call.op = "log" /\ err = ""
  /\ LogSettings.rounds = 3
  /\ Before.coeff > 1

\* a call whose squaring loop ran on the reciprocal of a base below one,
\* with the reciprocal of a value below one, has returned
C27_WitnessReciprocal ==
  /\ Returned /\ call.op = "log" /\ err = ""
  /\ cmp(ArgValue, D(1, 0)) < 0 /\ cmp(Before, D(1, 0)) < 0
  /\ LogSettings.rounds > 1

\* the squaring loop in its third round
C27_WitnessSquares ==
  /\ pc = "squares" /\ call.frame.count = 2 /\ call.frame.exponent = 4

(* ========================= properties of root ========================== *)
\* max(r - 10^-p, 0)^d <= v <= (r + 10^-p)^d for a positive v and a result
\* r of scale p >= 0 that is not negative: the three numbers as integers at
\* the larger of the scales p * d and v.digits
WithinOneUlp(v, r, d) ==
  LET scale == max2(r.digits * d, v.digits)
      low == WidePower(WideOf(max2(r.coeff - 1, 0)), d)
      high == WidePower(WideOf(r.coeff + 1), d)
      value == WideTimesPow10(WideOf(v.coeff), scale - v.digits)
  IN /\ WideCmp(WideTimesPow10(low, scale - r.digits * d), value) <= 0
     /\ WideCmp(value, WideTimesPow10(high, scale - r.digits * d)) <= 0

\* a call of root or root$ of a positive value with a degree of 2 or more
\* and digits that are not negative, which returned a value
Rooted ==
  /\ Returned /\ call.op = "root" /\ err = ""
  /\ Before.coeff > 0 /\ call.arg.val >= 2
  /\ OrDefault(call.digits, DEFAULT_DIVISION_PRECISION) >= 0

\* C16: for every positive value v, the magnitudes far outside the range of
\* a float included, every degree d >= 2 and every digits p >= 0,
\* v.root(d, p) returns r of scale exactly p that is within one unit in the
\* last place of the true d-th root: max(r - 10^-p, 0)^d <= v <= (r + 10^-p)^d.
C16_RootWithinOneUlp ==
  Rooted =>
    /\ After.digits = OrDefault(call.digits, DEFAULT_DIVISION_PRECISION)
    /\ After.coeff >= 0
    /\ WithinOneUlp(Before, After, call.arg.val)

\* the loop of root$ has run its 64 rounds from the initial value 1 without
\* coming close, and the value it stopped at is the result
C16_Case ==
  /\ Rooted
  /\ LET o == rootValue(Widen(Before), call.arg.val, ensureDigits(call.digits.val))
     IN o.initial.mag = <<>> /\ o.loop.i = 64 /\ o.loop.exit = "rounds"
  /\ After.coeff > 1


(* ------------------------- properties of neg --------------------------- *)
\* C22: neg takes a boolean flag: neg(true) returns the negated value,
\* neg(false) a value equal to the original; the receiver is unchanged in
\* both cases.
C22_NegFlag ==
  (Returned /\ call.op = "neg" /\ ~call.inplace) =>
    /\ err = ""
    /\ heap["x"] = pre["x"]
    /\ call.force => After = D(-Before.coeff, Before.digits)
    /\ ~call.force => cmp(After, Before) = 0

\* neg(false) on a nonzero receiver
C22_Case ==
  /\ Returned /\ call.op = "neg" /\ ~call.inplace /\ ~call.force
  /\ Before.coeff > 0 /\ Before.digits > 0
  /\ After = D(-Before.coeff, Before.digits)
  /\ heap["x"] = pre["x"]


(* ------------- properties of rounding to a finer scale ----------------- *)
\* C28: round$, floor$, ceil$ and trunc$ with a target digit count d that is
\* at least the receiver's scale: without the force flag the receiver's
\* (coeff, digits) is unchanged and the receiver itself is returned; with the
\* force flag the scale becomes exactly d and the coefficient is multiplied
\* by 10^(d - scale), so the value is unchanged.
C28_CoarseEnough ==
  (Returned /\ call.op \in {"round", "floor", "ceil", "trunc"} /\ call.inplace
   /\ call.digits.kind # "frac" /\ OrDefault(call.digits, 0) >= Before.digits) =>
    LET d == OrDefault(call.digits, 0)
    IN /\ err = "" /\ ret.a = "x"
       /\ ~call.force => heap["x"] = pre["x"]
       /\ call.force =>
            /\ After = D(Before.coeff * (10 ^ (d - Before.digits)), d)
            /\ cmp(After, Before) = 0

\* a forced call that raises the scale of a nonzero receiver
C28_Witness ==
  /\ Returned /\ call.op = "trunc" /\ call.inplace /\ call.force /\ err = ""
  /\ call.digits.kind = "int" /\ call.digits.val > Before.digits
  /\ Before.coeff # 0 /\ After.coeff # Before.coeff

\* an unforced call whose target is finer than the receiver's scale
C28_WitnessKept ==
  /\ Returned /\ call.op = "floor" /\ call.inplace /\ ~call.force /\ err = ""
  /\ call.digits.kind = "int" /\ call.digits.val > Before.digits
  /\ Before.coeff # 0 /\ heap["x"] = pre["x"]


(* -------------------- properties of rescale() -------------------------- *)
\* C29: rescale() with no target digits on a nonzero decimal keeps the
\* numeric value, never raises the scale and never lowers it below 0, ends
\* with scale <= 0 or a coefficient not divisible by 10, and is idempotent.
C29_StripZeros ==
  (Returned /\ call.op = "rescale" /\ call.digits.kind = "undef" /\ Before.coeff # 0) =>
    /\ err = ""
    /\ After.digits <= Before.digits
    /\ After.digits >= (IF Before.digits < 0 THEN Before.digits ELSE 0)
    /\ After.coeff * (10 ^ (Before.digits - After.digits)) = Before.coeff
    /\ After.digits <= 0 \/ After.coeff % 10 # 0
    /\ rescale_(heap, call.self, DigitsUndef, call.mode) = Ok(heap)

\* a trailing zero is stripped and the loop stops at a nonzero last digit
C29_Witness ==
  /\ Returned /\ call.op = "rescale" /\ call.digits.kind = "undef" /\ err = ""
  /\ Before.coeff % 10 = 0 /\ Before.coeff # 0 /\ Before.digits = 2
  /\ After.digits = 1 /\ After.coeff % 10 # 0

\* a trailing zero is stripped and the loop stops at scale 0
C29_WitnessScaleZero ==
  /\ Returned /\ call.op = "rescale" /\ call.digits.kind = "undef" /\ err = ""
  /\ Before.coeff % 100 = 0 /\ Before.coeff # 0 /\ Before.digits = 1
  /\ After.digits = 0 /\ After.coeff % 10 = 0


(* ------------ properties of the arguments of binary operations --------- *)
\* the in-place method of a call that takes a Decimal argument, run on
\* object self of heap h with the argument object v
ApplyBinary(h, self, v) ==
  CASE call.op = "add" -> add_(h, self, v)
    [] call.op = "sub" -> sub_(h, self, v)
    [] call.op = "mul" -> mul_(h, self, v, call.digits)
    [] call.op = "div" -> div_(h, self, v, call.digits, call.mode)
    [] call.op = "mod" -> mod_(h, self, v)
    [] call.op = "modPositive" -> modPositive_(h, self, v)
    [] call.op = "roundBy" -> roundBy_(h, self, v, call.mode)
    [] call.op = "floorBy" -> floorBy_(h, self, v)
    [] call.op = "ceilBy" -> ceilBy_(h, self, v)
    [] call.op = "truncBy" -> truncBy_(h, self, v)
    [] call.op = "splitBy" -> splitBy_(h, self, v, call.mode)

BinaryOps ==
  {"add", "sub", "mul", "div", "mod", "modPositive",
   "roundBy", "floorBy", "ceilBy", "truncBy", "splitBy"}

\* C30: the result of x.op$(y) depends only on the pre-call values of x and
\* y: it is what the operation gives on two separate objects holding those
\* values; an argument that is not the receiver is not changed, nor is
\* DECIMAL_ONE; and with the receiver as its own argument x.add$(x) = 2x,
\* x.sub$(x) = 0, x.mul$(x) = x^2 at twice the scale, and for nonzero x
\* x.div$(x) = 1 and x.mod$(x) = 0.
C30_PreCallValues ==
  /\ heap[DECIMAL_ONE] = D(1, 0)
  /\ (Returned /\ call.op \in BinaryOps) =>
       LET apart == ApplyBinary(("s" :> Before) @@ ("t" :> ArgValue) @@ Kept(pre), "s", "t")
           x == Before
       IN /\ call.arg # call.self => heap[call.arg] = pre[call.arg]
          /\ err = apart.err
          /\ After = apart.h["s"]
          /\ (call.inplace /\ call.arg = "x") =>
               /\ call.op = "add" => After = D(2 * x.coeff, x.digits)
               /\ call.op = "sub" => After = D(0, x.digits)
               /\ (call.op = "mul" /\ call.digits.kind = "undef") =>
                    After = D(x.coeff * x.coeff, 2 * x.digits)
               /\ (call.op = "div" /\ x.coeff # 0 /\ call.digits.kind # "frac") =>
                    err = "" /\ cmp(After, D(1, 0)) = 0
               /\ (call.op = "mod" /\ x.coeff # 0) => err = "" /\ After.coeff = 0

\* x.mul$(x) on a receiver whose square differs from it
C30_Witness ==
  /\ Returned /\ call.op = "mul" /\ call.inplace /\ call.arg = "x" /\ err = ""
  /\ call.digits.kind = "undef"
  /\ Before.coeff > 1 /\ Before.digits = 1
  /\ After = D(Before.coeff * Before.coeff, 2)

\* x.div$(x, 1) on a nonzero receiver, and x.sub$(x)
C30_WitnessDiv ==
  /\ Returned /\ call.op = "div" /\ call.inplace /\ call.arg = "x" /\ err = ""
  /\ Before.coeff < 0 /\ call.digits = DigitsInt(1)
  /\ After = D(10, 1)

\* an argument apart from the receiver, read by a call that changes the receiver
C30_WitnessArgument ==
  /\ Returned /\ call.op = "sub" /\ call.inplace /\ call.arg = "v" /\ err = ""
  /\ heap["x"] # pre["x"] /\ heap["v"] = pre["v"] /\ heap["v"].coeff # 0

(* ===================== properties of BinaryReader ====================== *)
ReaderBefore == pre["br"]
ReaderAfter == heap["br"]
FixedReads == {"readUint8", "readUint16", "readUint32", "readInt8"}

\* C23: whatever calls with integer arguments were made, 0 <= position <=
\* size, remain is size - position, and eof() holds exactly at position =
\* size; a fixed-width read past the end, a seek to an unknown bookmark and
\* an align with n <= 0 throw, and a call that throws leaves the position
\* where it was.
C23_PositionWithinSize ==
  /\ 0 <= reader_position(ReaderAfter)
  /\ reader_position(ReaderAfter) <= reader_size(ReaderAfter)
  /\ reader_remain(ReaderAfter) = reader_size(ReaderAfter) - reader_position(ReaderAfter)
  /\ reader_eof(ReaderAfter) <=> reader_position(ReaderAfter) = reader_size(ReaderAfter)
  /\ Returned =>
       /\ err # "" => reader_position(ReaderAfter) = reader_position(ReaderBefore)
       /\ (call.op \in FixedReads /\ call.arg.val > reader_remain(ReaderBefore)) => err # ""
       /\ (call.op = "seek" /\ call.arg.kind = "string"
             /\ call.arg.val \notin DOMAIN ReaderBefore.bookmarks \cup Inherited) => err # ""
       /\ (call.op = "align" /\ call.arg.val <= 0) => err # ""

\* a read past the end has thrown with the cursor past the start
C23_Witness ==
  /\ Returned /\ call.op = "readUint32" /\ err # ""
  /\ reader_position(ReaderBefore) > 0
  /\ reader_remain(ReaderBefore) > 0

\* a skip past the end has stopped at the end of a view over a part of a buffer
C23_WitnessClamped ==
  /\ Returned /\ call.op = "skip" /\ err = ""
  /\ ReaderBefore.view.byteOffset > 0
  /\ call.arg.kind = "number"
  /\ reader_position(ReaderBefore) + call.arg.val > reader_size(ReaderBefore)
  /\ reader_eof(ReaderAfter)

\* a seek to a bookmark that was never set has thrown
C23_WitnessBookmark ==
  /\ Returned /\ call.op = "seek" /\ call.arg = String_("nope") /\ err # ""
  /\ reader_position(ReaderBefore) > 0

\* C24: peekBytes(n) and readBytes(n), n >= 0 or left out, return the
\* min(n, remain) bytes of the view from the cursor on; readBytes moves the
\* cursor by the number of bytes it returns and peekBytes leaves it.
C24_BytesOfView ==
  (Returned /\ call.op \in {"peekBytes", "readBytes"}
     /\ (call.arg.kind = "undefined" \/ call.arg.val >= 0)) =>
    LET r == ReaderBefore
        count == IF call.arg.kind = "undefined" THEN reader_remain(r)
                 ELSE min2(call.arg.val, reader_remain(r))
    IN /\ err = ""
       /\ ret.kind = "bytes"
       /\ Len(ret.val) = count
       /\ \A i \in 1..Len(ret.val) :
            /\ i <= reader_remain(r)
            /\ ret.val[i] = DataView_byte(r.view, reader_position(r) + i - 1)
       /\ reader_position(ReaderAfter)
            = reader_position(r) + (IF call.op = "readBytes" THEN Len(ret.val) ELSE 0)

(* ===================== properties of BinaryWriter ====================== *)
WriterBefore == pre["bw"]
WriterAfter == heap["bw"]
Writes == {"writeUint8", "writeUint16", "writeBytes"}

\* the view of w holds nothing but zero from its size on, and its buffer
\* is its first size bytes
BufferIsWritten(w) ==
  /\ writer_buffer(w).byteLength = writer_size(w)
  /\ \A i \in DOMAIN w.view.buffer.bytes :
       /\ w.view.byteOffset <= i /\ i < w.view.byteOffset + writer_size(w)
       /\ ByteAt(writer_buffer(w), i - w.view.byteOffset) = w.view.buffer.bytes[i]
  /\ \A i \in DOMAIN writer_buffer(w).bytes :
       /\ i < writer_size(w)
       /\ writer_buffer(w).bytes[i] = ByteAt(w.view.buffer, w.view.byteOffset + i)

\* the bytes of the view after the call are those of the call at the
\* cursor it was made at, and elsewhere, through any growth, the bytes the
\* view held before
BytesKept(before, after, at, s) ==
  LET written == {at + k - 1 : k \in 1..Len(s)}
  IN \A i \in DOMAIN before.view.buffer.bytes \cup DOMAIN after.view.buffer.bytes \cup written :
       ByteAt(after.view.buffer, after.view.byteOffset + i)
         = IF i \in written THEN s[i - at + 1] % 256
           ELSE ByteAt(before.view.buffer, before.view.byteOffset + i)

\* C25: for a resizable writer, whatever calls were made: position <=
\* capacity; size is the largest position the cursor has reached, so it is
\* at least the position, and after a call it is the larger of the size
\* before and the position after; buffer is exactly size bytes long, with
\* at every offset the byte last written there and 0 where none was; and a
\* call, growing the capacity or not, changes no byte but those it writes.
C25_SizeAndBuffer ==
  WriterAfter.resizable =>
    /\ writer_position(WriterAfter).kind = "number"
    /\ writer_position(WriterAfter).val <= writer_capacity(WriterAfter)
    /\ writer_position(WriterAfter).val <= writer_size(WriterAfter)
    /\ BufferIsWritten(WriterAfter)
    /\ Returned =>
         /\ writer_size(WriterAfter)
              = max2(writer_size(WriterBefore), writer_position(WriterAfter).val)
         /\ writer_capacity(WriterAfter) >= writer_capacity(WriterBefore)
         /\ BytesKept(WriterBefore, WriterAfter, writer_position(WriterBefore).val,
                      IF call.op \in Writes /\ err = "" THEN call.arg.val ELSE <<>>)

\* a writer whose cursor and bookmarks are whole numbers, as they are
\* until a seek to a name that the bookmarks object only inherits
Numbered(w) ==
  /\ writer_position(w).kind = "number"
  /\ \A s \in DOMAIN w.bookmarks : w.bookmarks[s].kind = "number"

\* From a writer whose cursor and bookmarks are numbers, every call but
\* the seek to an inherited name leaves the statements of C25 true.
WriterStepFromNumbers ==
  (WriterAfter.resizable /\ Returned /\ Numbered(WriterBefore) /\ BufferIsWritten(WriterBefore)
     /\ writer_position(WriterBefore).val <= writer_size(WriterBefore)
     /\ ~(call.op = "seek" /\ call.arg.kind = "string" /\ call.arg.val \in Inherited
            /\ call.arg.val \notin DOMAIN WriterBefore.bookmarks)) =>
    /\ Numbered(WriterAfter)
    /\ writer_position(WriterAfter).val <= writer_capacity(WriterAfter)
    /\ writer_position(WriterAfter).val <= writer_size(WriterAfter)
    /\ BufferIsWritten(WriterAfter)
    /\ writer_size(WriterAfter)
         = max2(writer_size(WriterBefore), writer_position(WriterAfter).val)
    /\ writer_capacity(WriterAfter) >= writer_capacity(WriterBefore)
    /\ BytesKept(WriterBefore, WriterAfter, writer_position(WriterBefore).val,
                 IF call.op \in Writes /\ err = "" THEN call.arg.val ELSE <<>>)

\* a write across the end of the first page has grown the view over bytes
\* written before
WriterGrown ==
  /\ Returned /\ call.op \in Writes /\ err = ""
  /\ writer_capacity(WriterAfter) > writer_capacity(WriterBefore)
  /\ WriterBefore.view.buffer.bytes # <<>>
  /\ Numbered(WriterBefore)

(* ================ properties of Decimal(x).number() ==================== *)
\* C21: Decimal(x) of a finite float x does not throw, and
\* Decimal(x).number() returns a Number that is === x
C21_FloatRoundTrip ==
  /\ (pc = "returned" /\ call.op = "Decimal" /\ call.arg.kind = "number") => err = ""
  /\ (pc = "returned" /\ call.op = "number") =>
        /\ err = ""
        /\ call.arg.kind = "number"
        /\ StrictEquals(ret.num, call.arg)

\* a float whose text has an exponent above 21 has made the round trip
C21_Witness ==
  /\ pc = "returned"
  /\ call.op = "number"
  /\ \E i \in 1..Len(NumberToString(call.arg)) : NumberToString(call.arg)[i] = "+"
  /\ heap["x"].digits < -20
  /\ ret.num = call.arg

\* a float below 1e-6, of a text with a negative exponent, has made it
C21_WitnessSmall ==
  /\ pc = "returned"
  /\ call.op = "number"
  /\ call.arg.neg
  /\ heap["x"].digits > 7
  /\ Len(heap["x"].mag) = 1
  /\ ret.num = call.arg

\* a float that is no decimal fraction of few digits has made it: its
\* text has a point and no exponent
C21_WitnessFraction ==
  /\ pc = "returned"
  /\ call.op = "number"
  /\ heap["x"].digits \in 1..6
  /\ heap["x"].mag # <<>>
  /\ call.arg.ord % 2 = 1
  /\ ret.num = call.arg

\* minus zero comes back as zero, which is === to it
C21_WitnessMinusZero ==
  /\ pc = "returned"
  /\ call.op = "number"
  /\ call.arg = Float(TRUE, 0)
  /\ ret.num = Float(FALSE, 0)

====
